---- MODULE Spec2Model ----
(***************************************************************************)
(* Model of the confirmation flow of the Ashby Slack bot (src/slack_bot.py) *)
(* and of the client it drives (src/ashby_client.py).                       *)
(*                                                                          *)
(* The specifications:                                                      *)
(*   SpecStore  PendingActionsStore driven directly through store / get /   *)
(*              remove, with the clock advancing between calls.             *)
(*   Spec       handle_mention and handle_reaction, the latter run by two   *)
(*              listener threads that interleave at its store accesses.     *)
(*   SpecKinds  Spec with every tool of execute_tool.                       *)
(*   SpecRedact AshbyClient.redact_data on nested values.                   *)
(*   SpecServer call_tool of the MCP server (src/server.py).                *)
(*   SpecRate   RateLimiter.is_allowed called by two users.                 *)
(*   SpecMemory ConversationMemory appends.                                 *)
(*   SpecMemoryTTL   ConversationMemory appends, reads and clears, with     *)
(*              the clock moving past the TTL.                              *)
(*   SpecStoreConc, SpecRateConc, SpecMemoryConc   the three stores used    *)
(*              from two listener threads at once, statement by statement.  *)
(*   SpecRateWindow  is_allowed and get_remaining of the RateLimiter.       *)
(*   SpecTurn   handle_mention from start to end: the channel check, the    *)
(*              limiter, the commands, the LLM turn, the memory, the store. *)
(*   SpecThread replies stored for threads and read with get_by_thread.     *)
(***************************************************************************)
EXTENDS Integers, Sequences, FiniteSets, TLC

VARIABLES
    now,              \* time.time(), in whole seconds
    pending_actions,  \* pending_actions._actions: dict key -> entry
    ret,              \* SpecStore: the last store/get/remove call and its result
    ref,              \* SpecStore: per coordinate, the last store call not yet removed
    calls,            \* SpecStore: number of API calls made so far
    m,                \* Spec: the handle_mention invocation in progress
    r,                \* Spec: the handle_reaction invocation of each listener thread
    outbox,           \* Spec: messages the bot posted, in order; the n-th has ts n
    ats,              \* Spec: mutating requests sent to the ATS, in order
    execLog,          \* Spec: invocations of execute_confirmed_action, in order
    stored,           \* Spec: every pending_actions.store call made, by key
    removed,          \* Spec: key -> the reaction event whose handler removed its entry
    mentions,         \* Spec: number of app_mention events delivered
    escaped,          \* Spec: the exceptions that left a handler uncaught
    mcp_client,       \* SpecServer: server._client, None until the first call_tool
    mcp_log,          \* SpecServer: the call_tool invocations made, in order
    rd,               \* SpecRedact: the last redact_data calls and their results
    rate_requests,    \* SpecRate: rate_limiter._requests: dict user -> timestamps
    rate_hist,        \* SpecRate: the is_allowed calls made, in order
    conversations,    \* SpecMemory: conversation_memory._conversations
    appended,         \* SpecMemory: per key, the messages appended to the live thread
    touched,          \* SpecMemory: per key, the time of the last append to the thread
    mem_ret,          \* SpecMemoryTTL: the last get_messages call and its result
    mem_calls,        \* SpecMemory: number of calls of the memory made so far
    store_ctx,        \* SpecStoreConc: the store call each calling context is in
    rate_ctx,         \* SpecRateConc: the is_allowed call each thread is in
    mem_ctx,          \* SpecMemoryConc: the memory call each thread is in
    turn              \* SpecTurn: the last handle_mention invocation, start to end

storeVars == <<ret, ref, calls>>

flowVars == <<m, r, outbox, ats, execLog, stored, removed, mentions, escaped>>

\* the MCP server and the components checked one by one
\* what the memory specifications record about the calls made
memAux == <<touched, mem_ret, mem_calls>>

\* the calls in progress of the specifications with concurrent callers
concVars == <<store_ctx, rate_ctx, mem_ctx, turn>>

libVars == <<mcp_client, mcp_log, rd, rate_requests, rate_hist, conversations, appended,
             touched, mem_ret, mem_calls, concVars>>

vars == <<now, pending_actions, ret, ref, calls,
          m, r, outbox, ats, execLog, stored, removed, mentions, escaped,
          mcp_client, mcp_log, rd, rate_requests, rate_hist, conversations, appended,
          touched, mem_ret, mem_calls, store_ctx, rate_ctx, mem_ctx, turn>>

\* the Slack bot's confirmation flow and its store
botVars == <<pending_actions, storeVars, flowVars>>

----------------------------------------------------------------------------
(* Values *)

\* Python's None
None == [none |-> TRUE]

\* PendingActionsStore(ttl_seconds=300)
TTL == 300

\* The instants at which the clock is read: ages below, at and above the TTL
\* can all be formed as differences of two of them.
Instants == {0, TTL, TTL + 1}

Users == {"UA", "UB"}

----------------------------------------------------------------------------
(* PendingActionsStore *)

\* key = f"{channel_id}:{message_ts}"
Key(channel_id, message_ts) == channel_id \o ":" \o message_ts

\* A mutant of _cleanup_expired: the entry is dropped at age TTL already.
cleanup_expired_AtTTL(actions, t) ==
    [k \in {j \in DOMAIN actions : ~(t - actions[j].created_at >= TTL)} |-> actions[k]]

\* A mutant of _cleanup_expired: nothing ever expires.
cleanup_expired_Never(actions, t) == actions

\* _cleanup_expired: delete every entry with now - created_at > ttl
PendingActionsStore_cleanup_expired(actions, t) ==
    [k \in {j \in DOMAIN actions : ~(t - actions[j].created_at > TTL)} |-> actions[k]]

\* A mutant of store: an entry already at the key keeps its owner and its
\* creation time, only the action is replaced (a merge).
store_Merge(actions, t, message_ts, channel_id, action_data, user_id) ==
    LET swept == PendingActionsStore_cleanup_expired(actions, t)
        key   == Key(channel_id, message_ts)
    IN  [k \in DOMAIN swept \cup {key} |->
            IF k = key
            THEN IF key \in DOMAIN swept
                 THEN [swept[key] EXCEPT !.action = action_data]
                 ELSE [action |-> action_data, user_id |-> user_id,
                       channel_id |-> channel_id, message_ts |-> message_ts,
                       created_at |-> t]
            ELSE swept[k]]

\* store: sweep, then self._actions[key] = {...}; the dict after the call
PendingActionsStore_store(actions, t, message_ts, channel_id, action_data, user_id) ==
    LET swept == PendingActionsStore_cleanup_expired(actions, t)
        key   == Key(channel_id, message_ts)
    IN  [k \in DOMAIN swept \cup {key} |->
            IF k = key
            THEN [action |-> action_data, user_id |-> user_id,
                  channel_id |-> channel_id, message_ts |-> message_ts,
                  created_at |-> t]
            ELSE swept[k]]

\* get: sweep, then self._actions.get(key); <<result, dict after the call>>
PendingActionsStore_get(actions, t, channel_id, message_ts) ==
    LET swept == PendingActionsStore_cleanup_expired(actions, t)
        key   == Key(channel_id, message_ts)
    IN  <<IF key \in DOMAIN swept THEN swept[key] ELSE None, swept>>

\* A mutant of remove: the entry is read with get and left in the dict.
remove_NoPop(actions, t, channel_id, message_ts) ==
    PendingActionsStore_get(actions, t, channel_id, message_ts)

\* remove: sweep, then self._actions.pop(key, None); <<result, dict after>>
PendingActionsStore_remove(actions, t, channel_id, message_ts) ==
    LET swept == PendingActionsStore_cleanup_expired(actions, t)
        key   == Key(channel_id, message_ts)
    IN  <<IF key \in DOMAIN swept THEN swept[key] ELSE None,
          [k \in DOMAIN swept \ {key} |-> swept[k]]>>

\* k.startswith(prefix), for the keys of the dict: the rest of a key is the
\* message_ts of its entry
startswith(k, prefix, actions) ==
    \E j \in DOMAIN actions : k = prefix \o actions[j].message_ts

\* get_by_thread: sweep, then the entries whose key begins with
\* f"{channel_id}:" and whose v.get("thread_ts") equals thread_ts; an entry
\* without the field gives None, which equals no thread_ts.
\* <<result, dict after>>
PendingActionsStore_get_by_thread(actions, t, channel_id, thread_ts) ==
    LET swept  == PendingActionsStore_cleanup_expired(actions, t)
        prefix == channel_id \o ":"
    IN  <<{swept[k] : k \in {j \in DOMAIN swept :
                                /\ startswith(j, prefix, swept)
                                /\ "thread_ts" \in DOMAIN swept[j]
                                /\ swept[j].thread_ts = thread_ts}},
          swept>>


----------------------------------------------------------------------------
(* The Slack handlers: values *)

\* the channel the bot is mentioned in
Channel == "C1"

\* listener threads of the Bolt app that run handle_reaction
Threads == {"t1", "t2"}

\* emoji of reaction_added events; "eyes" stands for any other emoji
Reactions == {"white_check_mark", "x", "eyes"}

\* tool inputs the LLM supplies, kept opaque
Payloads == {"p1", "p2"}

\* the "action" values of a requires_confirmation payload
Kinds == {"add_note", "move_stage", "create_candidate", "schedule_interview",
          "cancel_interview", "reschedule_interview", "create_offer",
          "reject_application", "archive_candidate", "apply_candidate_to_job"}

IdleMention == [pc |-> "idle"]

IdleReaction == [pc |-> "idle"]

\* message_ts of the n-th message the bot posts
Ts(n) == ToString(n)

----------------------------------------------------------------------------
(* SpecStore: the store driven through its three methods *)

MaxCalls == 3

StCoords == {<<"C1", "1.1">>, <<"C1", "1.2">>, <<"C2", "1.1">>}
StActions == {[action |-> "add_note", payload |-> "p1"],
              [action |-> "move_stage", payload |-> "p2"]}

NoCall == [op |-> "none"]

\* the calling contexts that use the store at the same time
StoreCtxs == {"c1", "c2"}

\* no call in progress, none completed
NoStoreCalls ==
    [run |-> [c \in StoreCtxs |-> [pc |-> "idle"]], hist |-> <<>>, events |-> 0]

\* no is_allowed call in progress, none completed
NoRateCalls == [run |-> [c \in StoreCtxs |-> [pc |-> "idle"]], hist |-> <<>>]

\* no memory call in progress, none completed: nothing was appended (order),
\* no thread was deleted (cleared), no add_... call was begun (adds)
NoMemCalls ==
    [run |-> [c \in StoreCtxs |-> [pc |-> "idle"]], hist |-> <<>>, order |-> <<>>,
     cleared |-> FALSE, adds |-> 0]

\* module load: the stores are empty, no handler runs
Init ==
    /\ now = 0
    /\ pending_actions = <<>>
    /\ ret = NoCall
    /\ ref = [c \in StCoords |-> None]
    /\ calls = 0
    /\ m = IdleMention
    /\ r = [p \in Threads |-> IdleReaction]
    /\ outbox = <<>>
    /\ ats = <<>>
    /\ execLog = <<>>
    /\ stored = <<>>
    /\ removed = <<>>
    /\ mentions = 0
    /\ mcp_client = None
    /\ mcp_log = <<>>
    /\ rd = None
    /\ rate_requests = <<>>
    /\ rate_hist = <<>>
    /\ conversations = <<>>
    /\ appended = <<>>
    /\ escaped = {}
    /\ touched = <<>>
    /\ mem_ret = None
    /\ mem_calls = 0
    /\ store_ctx = NoStoreCalls
    /\ rate_ctx = NoRateCalls
    /\ mem_ctx = NoMemCalls
    /\ turn = None

\* the clock moves forward between steps.  Only differences to created_at
\* are ever read, so time is let pass only while the store holds an entry.
Tick ==
    /\ DOMAIN pending_actions # {}
    /\ \E t \in Instants : t > now /\ now' = t
    /\ UNCHANGED <<pending_actions, storeVars, libVars, flowVars>>

StoreCall(channel_id, message_ts, action_data, user_id) ==
    /\ calls < MaxCalls
    /\ calls' = calls + 1
    /\ pending_actions' = PendingActionsStore_store(pending_actions, now, message_ts,
                                                     channel_id, action_data, user_id)
    /\ ret' = [op |-> "store", channel_id |-> channel_id, message_ts |-> message_ts,
               at |-> now, result |-> Key(channel_id, message_ts),
               prior |-> ref[<<channel_id, message_ts>>]]
    /\ ref' = [ref EXCEPT ![<<channel_id, message_ts>>] =
                  [action |-> action_data, user_id |-> user_id, created_at |-> now,
                   prev |-> IF ref[<<channel_id, message_ts>>] = None THEN None
                            ELSE [ref[<<channel_id, message_ts>>] EXCEPT !.prev = None]]]
    /\ UNCHANGED <<now, flowVars, libVars>>

GetCall(channel_id, message_ts) ==
    LET got == PendingActionsStore_get(pending_actions, now, channel_id, message_ts)
    IN  /\ calls < MaxCalls
        /\ calls' = calls + 1
        /\ pending_actions' = got[2]
        /\ ret' = [op |-> "get", channel_id |-> channel_id, message_ts |-> message_ts,
                   at |-> now, result |-> got[1],
                   prior |-> ref[<<channel_id, message_ts>>]]
        /\ UNCHANGED <<now, ref, flowVars, libVars>>

RemoveCall(channel_id, message_ts) ==
    LET got == PendingActionsStore_remove(pending_actions, now, channel_id, message_ts)
    IN  /\ calls < MaxCalls
        /\ calls' = calls + 1
        /\ pending_actions' = got[2]
        /\ ret' = [op |-> "remove", channel_id |-> channel_id, message_ts |-> message_ts,
                   at |-> now, result |-> got[1],
                   prior |-> ref[<<channel_id, message_ts>>]]
        /\ ref' = [ref EXCEPT ![<<channel_id, message_ts>>] = None]
        /\ UNCHANGED <<now, flowVars, libVars>>

NextStore ==
    \/ Tick
    \/ \E c \in StCoords, a \in StActions, u \in Users : StoreCall(c[1], c[2], a, u)
    \/ \E c \in StCoords : GetCall(c[1], c[2])
    \/ \E c \in StCoords : RemoveCall(c[1], c[2])

SpecStore == Init /\ [][NextStore]_vars

----------------------------------------------------------------------------
(* SpecThread: replies stored as handle_mention stores them, and read with *)
(* get_by_thread                                                            *)

\* the threads the replies are posted in
ReplyThreads == {"1.0", "2.0"}

\* handle_mention posts its reply in thread thread_ts, the reply gets
\* message_ts, and the action is stored for it: pending_actions.store(
\* message_ts=, channel_id=, action_data=, user_id=).  A reply is posted
\* once.  ref keeps the thread the reply is in.
StoreReply(channel_id, thread_ts, message_ts, action_data, user_id) ==
    /\ calls < MaxCalls
    /\ ref[<<channel_id, message_ts>>] = None
    /\ calls' = calls + 1
    /\ pending_actions' = PendingActionsStore_store(pending_actions, now, message_ts,
                                                     channel_id, action_data, user_id)
    /\ ret' = [op |-> "store", channel_id |-> channel_id, message_ts |-> message_ts,
               at |-> now, result |-> Key(channel_id, message_ts)]
    /\ ref' = [ref EXCEPT ![<<channel_id, message_ts>>] =
                  [action |-> action_data, user_id |-> user_id, created_at |-> now,
                   thread_ts |-> thread_ts]]
    /\ UNCHANGED <<now, flowVars, libVars>>

GetByThreadCall(channel_id, thread_ts) ==
    LET got == PendingActionsStore_get_by_thread(pending_actions, now, channel_id,
                                                 thread_ts)
    IN  /\ calls < MaxCalls
        /\ calls' = calls + 1
        /\ pending_actions' = got[2]
        /\ ret' = [op |-> "get_by_thread", channel_id |-> channel_id,
                   thread_ts |-> thread_ts, at |-> now, result |-> got[1]]
        /\ UNCHANGED <<now, ref, flowVars, libVars>>

NextThread ==
    \/ Tick
    \/ \E c \in StCoords, th \in ReplyThreads, a \in StActions, u \in Users :
          StoreReply(c[1], th, c[2], a, u)
    \/ \E c \in StCoords, th \in ReplyThreads : GetByThreadCall(c[1], th)

SpecThread == Init /\ [][NextThread]_vars

----------------------------------------------------------------------------
(* SpecStoreConc: store, get and remove called from two contexts.  The     *)
(* class takes no lock, so the calls interleave between the statements of  *)
(* _cleanup_expired and the dict operation that follows it.                *)

MaxConcCalls == 3

ConcCoords == {<<"C1", "1.1">>, <<"C1", "1.2">>}

\* the variables SpecStoreConc leaves alone
concRest == <<storeVars, flowVars, mcp_client, mcp_log, rd, rate_requests, rate_hist,
              conversations, appended, memAux, rate_ctx, mem_ctx, turn>>

\* the calls begun so far
ConcCalls ==
    Len(store_ctx.hist)
      + Cardinality({c \in StoreCtxs : store_ctx.run[c].pc # "idle"})

\* a context enters store, get or remove.  The contexts are
\* interchangeable: c2 makes a call only while c1 is in one.
ConcBegin(c, op, channel_id, message_ts, action_data, user_id) ==
    /\ store_ctx.run[c].pc = "idle"
    /\ c = "c2" => store_ctx.run["c1"].pc # "idle"
    /\ ConcCalls < MaxConcCalls
    /\ store_ctx' = [store_ctx EXCEPT
          !.run[c] = [pc |-> "iter", op |-> op, channel_id |-> channel_id,
                      message_ts |-> message_ts, action_data |-> action_data,
                      user_id |-> user_id, begun |-> store_ctx.events + 1],
          !.events = @ + 1]
    /\ UNCHANGED <<now, pending_actions, concRest>>

\* _cleanup_expired: now = time.time(), and the iteration over
\* self._actions.items() starts
ConcIter(c) ==
    /\ store_ctx.run[c].pc = "iter"
    /\ store_ctx' = [store_ctx EXCEPT
          !.run[c] = [@ EXCEPT !.pc = "scan"]
                     @@ [at |-> now, size |-> Cardinality(DOMAIN pending_actions)]]
    /\ UNCHANGED <<now, pending_actions, concRest>>

\* the iteration ends: RuntimeError when the dict changed size meanwhile,
\* else expired holds the keys with now - created_at > ttl
ConcScan(c) ==
    LET call == store_ctx.run[c]
    IN  /\ call.pc = "scan"
        /\ store_ctx' = [store_ctx EXCEPT !.run[c] =
              IF Cardinality(DOMAIN pending_actions) # call.size
              THEN [call EXCEPT !.pc = "raised"] @@ [error |-> "RuntimeError"]
              ELSE [call EXCEPT !.pc = "del"]
                   @@ [expired |-> {k \in DOMAIN pending_actions :
                                      call.at - pending_actions[k].created_at > TTL}]]
        /\ UNCHANGED <<now, pending_actions, concRest>>

\* for k in expired: del self._actions[k], a KeyError when k is gone
ConcDel(c, k) ==
    LET call == store_ctx.run[c]
    IN  /\ call.pc = "del"
        /\ k \in call.expired
        /\ IF k \in DOMAIN pending_actions
           THEN /\ pending_actions' = [j \in DOMAIN pending_actions \ {k} |->
                                         pending_actions[j]]
                /\ store_ctx' = [store_ctx EXCEPT !.run[c].expired = @ \ {k}]
           ELSE /\ pending_actions' = pending_actions
                /\ store_ctx' = [store_ctx EXCEPT !.run[c] =
                      [call EXCEPT !.pc = "raised"] @@ [error |-> "KeyError"]]
        /\ UNCHANGED <<now, concRest>>

\* the dict operation after the sweep: self._actions[key] = {...},
\* self._actions.get(key) or self._actions.pop(key, None); the call returns
ConcOp(c) ==
    LET call == store_ctx.run[c]
        key == Key(call.channel_id, call.message_ts)
        held == IF key \in DOMAIN pending_actions THEN pending_actions[key] ELSE None
        entry == [action |-> call.action_data, user_id |-> call.user_id,
                  channel_id |-> call.channel_id, message_ts |-> call.message_ts,
                  created_at |-> now]
    IN  /\ call.pc = "del"
        /\ call.expired = {}
        /\ pending_actions' =
              CASE call.op = "store" ->
                     [j \in DOMAIN pending_actions \cup {key} |->
                         IF j = key THEN entry ELSE pending_actions[j]]
                [] call.op = "get" -> pending_actions
                [] OTHER ->
                     [j \in DOMAIN pending_actions \ {key} |-> pending_actions[j]]
        /\ store_ctx' = [store_ctx EXCEPT
              !.run[c] = [pc |-> "idle"],
              !.hist = Append(@, [ctx |-> c, op |-> call.op,
                                  channel_id |-> call.channel_id,
                                  message_ts |-> call.message_ts,
                                  action_data |-> call.action_data,
                                  user_id |-> call.user_id,
                                  at |-> now,
                                  result |-> IF call.op = "store" THEN None ELSE held,
                                  begun |-> call.begun,
                                  ended |-> store_ctx.events + 1]),
              !.events = @ + 1]
        /\ UNCHANGED <<now, concRest>>

\* the clock moves on while no call is in progress
ConcTick ==
    /\ \A c \in StoreCtxs : store_ctx.run[c].pc \in {"idle", "raised"}
    /\ DOMAIN pending_actions # {}
    /\ \E t \in Instants : t > now /\ now' = t
    /\ UNCHANGED <<pending_actions, store_ctx, concRest>>

NextStoreConc ==
    \/ ConcTick
    \/ \E c \in StoreCtxs, x \in ConcCoords, a \in StActions :
          ConcBegin(c, "store", x[1], x[2], a, "UA")
    \/ \E c \in StoreCtxs, x \in ConcCoords, op \in {"get", "remove"} :
          ConcBegin(c, op, x[1], x[2], None, "")
    \/ \E c \in StoreCtxs : ConcIter(c)
    \/ \E c \in StoreCtxs : ConcScan(c)
    \/ \E c \in StoreCtxs, x \in ConcCoords : ConcDel(c, Key(x[1], x[2]))
    \/ \E c \in StoreCtxs : ConcOp(c)

SpecStoreConc == Init /\ [][NextStoreConc]_vars


----------------------------------------------------------------------------
(* execute_tool: the tools that ask for a confirmation *)

\* tool name -> "action" of the requires_confirmation payload it returns
ConfirmTools ==
    [add_candidate_note     |-> "add_note",
     move_candidate_stage   |-> "move_stage",
     create_candidate       |-> "create_candidate",
     schedule_interview     |-> "schedule_interview",
     cancel_interview       |-> "cancel_interview",
     reschedule_interview   |-> "reschedule_interview",
     create_offer           |-> "create_offer",
     reject_application     |-> "reject_application",
     archive_candidate      |-> "archive_candidate",
     apply_candidate_to_job |-> "apply_candidate_to_job"]

\* tools that build their payload from the input alone; the others first
\* look an id up through read calls and return an error when it is not found
NoLookupTools == {"add_candidate_note", "create_candidate"}

\* read tools: one whose JSON result is an object, one whose result is a list
DictTools == {"get_pipeline_overview"}
ListTools == {"search_candidates"}

ToolNames == DOMAIN ConfirmTools \cup DictTools \cup ListTools

\* the tools the LLM picks from under Spec: one whose confirmed call reaches
\* the ATS, one whose confirmed call does not, and a read tool
CoreTools == {"cancel_interview", "add_candidate_note", "search_candidates"}

\* A mutant of execute_tool: add_candidate_note writes the note at once.
execute_tool_Immediate(tool_name, tool_input, found) ==
    IF tool_name = "add_candidate_note"
    THEN [result |-> [json |-> "dict", value |-> [success |-> TRUE]],
          mutations |-> <<[method |-> "add_candidate_note",
                           endpoint |-> "candidate.createNote",
                           payload |-> tool_input, response |-> "ok"]>>]
    ELSE [result |-> [json |-> "dict", value |-> [error |-> "unavailable"]],
          mutations |-> <<>>]

\* execute_tool: the JSON it returns and the mutating ATS requests it makes
execute_tool(tool_name, tool_input, found) ==
    IF tool_name \in DOMAIN ConfirmTools
    THEN IF tool_name \notin NoLookupTools /\ ~found
         THEN [result |-> [json |-> "dict", value |-> [error |-> "not found"]],
               mutations |-> <<>>]
         ELSE [result |-> [json |-> "dict",
                           value |-> [action |-> ConfirmTools[tool_name],
                                      requires_confirmation |-> TRUE,
                                      payload |-> tool_input]],
               mutations |-> <<>>]
    ELSE IF tool_name \in ListTools
    THEN [result |-> [json |-> "list", value |-> <<tool_input>>], mutations |-> <<>>]
    ELSE IF tool_name \in DictTools
    THEN [result |-> [json |-> "dict", value |-> [data |-> tool_input]],
          mutations |-> <<>>]
    ELSE [result |-> [json |-> "dict", value |-> [error |-> "Unknown tool"]],
          mutations |-> <<>>]

\* result_data = json.loads(result); result_data.get("requires_confirmation"):
\* a list has no get, and the AttributeError is not among the caught ones
confirmation_check(result) ==
    IF result.json = "list" THEN "raise"
    ELSE IF /\ "requires_confirmation" \in DOMAIN result.value
            /\ result.value.requires_confirmation
         THEN "pending"
         ELSE "none"

----------------------------------------------------------------------------
(* execute_confirmed_action and the AshbyClient methods it names *)

\* the mutating methods AshbyClient defines: keyword parameters, those
\* without a default, and the endpoint the method posts to
AshbyClientMethods ==
    [add_candidate_note |->
        [params |-> {"candidate_id", "note", "note_type", "requester_info"},
         required |-> {"candidate_id", "note"},
         endpoint |-> "candidate.createNote"],
     move_application_stage |->
        [params |-> {"application_id", "stage_id"},
         required |-> {"application_id", "stage_id"},
         endpoint |-> "application.changeStage"],
     create_candidate |->
        [params |-> {"name", "email", "phone", "linkedin_url", "github_url",
                     "website_url", "location", "source_id", "credit_user_id"},
         required |-> {"name", "email"},
         endpoint |-> "candidate.create"],
     create_application |->
        [params |-> {"candidate_id", "job_id", "source_id", "credit_user_id"},
         required |-> {"candidate_id", "job_id"},
         endpoint |-> "application.create"],
     schedule_interview |->
        [params |-> {"application_id", "interview_stage_id", "start_time", "end_time",
                     "interviewer_user_ids", "location", "meeting_link",
                     "interview_type"},
         required |-> {"application_id", "interview_stage_id", "start_time",
                       "end_time", "interviewer_user_ids"},
         endpoint |-> "interviewSchedule.create"],
     cancel_interview |->
        [params |-> {"interview_schedule_id", "reason"},
         required |-> {"interview_schedule_id"},
         endpoint |-> "interviewSchedule.cancel"],
     update_interview |->
        [params |-> {"interview_schedule_id", "start_time", "end_time",
                     "interviewer_user_ids", "location", "meeting_link"},
         required |-> {"interview_schedule_id"},
         endpoint |-> "interviewSchedule.update"],
     create_offer |->
        [params |-> {"application_id", "start_date", "salary", "currency",
                     "offer_details"},
         required |-> {"application_id", "start_date"},
         endpoint |-> "offer.create"],
     archive_candidate |->
        [params |-> {"candidate_id", "reason"},
         required |-> {"candidate_id"},
         endpoint |-> "candidate.archive"],
     reject_application |->
        [params |-> {"application_id", "reason_id", "reason_text"},
         required |-> {"application_id"},
         endpoint |-> "application.archive"]]

\* per action kind, the call execute_confirmed_action writes: the attribute
\* of ashby it names and the keyword arguments it passes (cancel_interview
\* passes its one argument by position, to interview_schedule_id)
CallSite ==
    [add_note |->
        [method |-> "add_note", kwargs |-> {"candidate_id", "note"}],
     move_stage |->
        [method |-> "move_to_stage", kwargs |-> {"application_id", "stage_id"}],
     create_candidate |->
        [method |-> "create_candidate",
         kwargs |-> {"name", "email", "phone", "linkedin_url", "location"}],
     schedule_interview |->
        [method |-> "schedule_interview",
         kwargs |-> {"application_id", "interviewer_user_id", "start_time",
                     "duration_minutes", "interview_type", "meeting_link",
                     "location"}],
     cancel_interview |->
        [method |-> "cancel_interview", kwargs |-> {"interview_schedule_id"}],
     reschedule_interview |->
        [method |-> "update_interview",
         kwargs |-> {"interview_schedule_id", "start_time", "duration_minutes",
                     "interviewer_user_ids", "location", "meeting_link"}],
     create_offer |->
        [method |-> "create_offer", kwargs |-> {"application_id", "start_date"}],
     reject_application |->
        [method |-> "reject_application", kwargs |-> {"application_id", "reason"}],
     archive_candidate |->
        [method |-> "archive_candidate", kwargs |-> {"candidate_id", "reason"}],
     apply_candidate_to_job |->
        [method |-> "create_application", kwargs |-> {"candidate_id", "job_id"}]]

\* Python binds the call: the attribute exists, every keyword is a parameter
\* and every parameter without a default is given.  Otherwise the call raises
\* AttributeError or TypeError before any request is made.
Binds(site) ==
    /\ site.method \in DOMAIN AshbyClientMethods
    /\ site.kwargs \subseteq AshbyClientMethods[site.method].params
    /\ AshbyClientMethods[site.method].required \subseteq site.kwargs

\* responses of the ATS to a request: success, {"success": false}, HTTP error
Responses == {"ok", "fail", "raise"}

\* execute_confirmed_action: the mutating requests made and the kind of text
\* returned.  resp is the ATS's answer to the request; lookup is "raise" when
\* create_candidate carries a job_title and the job list cannot be fetched.
\* The client methods that bind catch every exception and return a result
\* dict, which this function never inspects.
execute_confirmed_action(action_data, resp, lookup) ==
    LET action_type == action_data.action
    IN  IF action_type \notin DOMAIN CallSite
        THEN [calls |-> <<>>, text |-> "unknown"]
        ELSE IF ~Binds(CallSite[action_type])
        THEN [calls |-> <<>>, text |-> "failed"]
        ELSE LET site == CallSite[action_type]
                 call == [method |-> site.method,
                          endpoint |-> AshbyClientMethods[site.method].endpoint,
                          payload |-> action_data.payload,
                          response |-> resp]
             IN  IF action_type = "create_candidate" /\ lookup = "raise"
                 THEN [calls |-> <<call>>, text |-> "failed"]
                 ELSE [calls |-> <<call>>, text |-> "success"]

----------------------------------------------------------------------------
(* sanitize_error *)

\* An error text is a sequence of tokens.  The classes of tokens the four
\* patterns of sanitize_error tell apart, each with its representatives:
\* the names before [=:], the separator, the schemes of an Authorization
\* header, white space, the prefixes of vendor keys, and other runs of the
\* characters of [\w\-\.]
KeyNames == {"token"}
Assigns == {"="}
Schemes == {"Bearer"}
Blanks == {" "}
AnthropicPrefix == "sk-ant-"
SlackPrefix == "xoxb-"
PlainWords == {"timeout", "abc123"}

\* the tokens [\w\-\.]+ runs over
WordTokens == KeyNames \cup Schemes \cup {AnthropicPrefix, SlackPrefix} \cup PlainWords

\* the token at position i, "" past the end
At(s, i) == IF i \in 1..Len(s) THEN s[i] ELSE ""

\* [\w\-\.]+ from position i, greedy: the position after the run
RECURSIVE WordsEnd(_, _)
WordsEnd(s, i) == IF At(s, i) \in WordTokens THEN WordsEnd(s, i + 1) ELSE i

\* \s* from position i, greedy
RECURSIVE BlanksEnd(_, _)
BlanksEnd(s, i) == IF At(s, i) \in Blanks THEN BlanksEnd(s, i + 1) ELSE i

\* secret_patterns[n] matched at position i: the position after the match
\* (0 if there is none) and the replacement
secret_pattern(n, s, i) ==
    CASE n = 1 ->
           LET v == BlanksEnd(s, i + 2)
           IN  [end |-> IF /\ At(s, i) \in KeyNames
                           /\ At(s, i + 1) \in Assigns
                           /\ WordsEnd(s, v) > v
                        THEN WordsEnd(s, v) ELSE 0,
                sub |-> <<At(s, i), "=", "[REDACTED]">>]
      [] n = 2 ->
           LET v == BlanksEnd(s, i + 1)
           IN  [end |-> IF /\ At(s, i) \in Schemes
                           /\ v > i + 1
                           /\ WordsEnd(s, v) > v
                        THEN WordsEnd(s, v) ELSE 0,
                sub |-> <<At(s, i), " ", "[REDACTED]">>]
      [] n = 3 ->
           [end |-> IF At(s, i) = AnthropicPrefix /\ WordsEnd(s, i + 1) > i + 1
                    THEN WordsEnd(s, i + 1) ELSE 0,
            sub |-> <<"[ANTHROPIC_KEY_REDACTED]">>]
      [] OTHER ->
           [end |-> IF At(s, i) = SlackPrefix /\ WordsEnd(s, i + 1) > i + 1
                    THEN WordsEnd(s, i + 1) ELSE 0,
            sub |-> <<"[SLACK_TOKEN_REDACTED]">>]

\* re.sub(pattern, replacement, error_str) from position i on
RECURSIVE secret_sub(_, _, _)
secret_sub(n, s, i) ==
    IF i > Len(s) THEN <<>>
    ELSE LET hit == secret_pattern(n, s, i)
         IN  IF hit.end # 0
             THEN hit.sub \o secret_sub(n, s, hit.end)
             ELSE <<s[i]>> \o secret_sub(n, s, i + 1)

\* A mutant of sanitize_error: the text is returned as it came.
sanitize_error_Raw(error) == error

\* sanitize_error: the four substitutions, one after the other
sanitize_error(error) ==
    secret_sub(4, secret_sub(3, secret_sub(2, secret_sub(1, error, 1), 1), 1), 1)

\* str(e) of the exceptions the external calls raise: a timeout, an HTTP
\* error that quotes the request's Authorization header, and one that
\* quotes a key=value pair
ErrorTexts ==
    {<<"timeout">>,
     <<"Bearer", " ", SlackPrefix, "abc123">>,
     <<"token", "=", AnthropicPrefix, "abc123", " ", "timeout">>}

\* str(e) of the AttributeError raised on a JSON list: one token of no class
ListHasNoGet == <<"'list' object has no attribute 'get'">>

----------------------------------------------------------------------------
(* handle_mention *)

MaxMentions == 1

\* say(text=f"Sorry, I encountered an error: {safe_error}") with
\* safe_error = sanitize_error(e)
ErrorReply(user, e) ==
    [text |-> "error", to |-> user, raw |-> e, detail |-> sanitize_error(e)]

\* app_mention by user with a non-empty text: the turn starts.  Users are
\* interchangeable, so the first mention is taken to be UA's.
Mention(user) ==
    /\ m.pc = "idle"
    /\ mentions = 0 => user = "UA"
    /\ mentions < MaxMentions
    /\ mentions' = mentions + 1
    /\ m' = [pc |-> "llm", user |-> user, pending |-> None]
    /\ UNCHANGED <<now, pending_actions, storeVars, libVars, escaped, r, outbox, ats,
                   execLog, stored, removed>>

\* the LLM stops with tool_use: execute_tool runs, and the result is kept as
\* pending_action_data when it requires confirmation
ToolUse(tool_name, tool_input, found) ==
    LET res   == execute_tool(tool_name, tool_input, found)
        check == confirmation_check(res.result)
        muts  == [i \in 1..Len(res.mutations) |->
                     [method |-> res.mutations[i].method,
                      endpoint |-> res.mutations[i].endpoint,
                      payload |-> res.mutations[i].payload,
                      response |-> res.mutations[i].response,
                      by |-> "execute_tool", exec |-> 0]]
    IN  /\ m.pc = "llm"
        /\ ats' = ats \o muts
        /\ IF check = "raise"
           THEN /\ m' = IdleMention
                /\ outbox' = Append(outbox, ErrorReply(m.user, ListHasNoGet))
           ELSE /\ m' = [m EXCEPT !.pending = IF check = "pending"
                                              THEN res.result.value ELSE @]
                /\ outbox' = outbox
        /\ UNCHANGED <<now, pending_actions, storeVars, libVars, escaped, r, execLog,
                       stored, removed, mentions>>

\* claude.messages.create raises: handle_mention reports the error
LLMRaises(e) ==
    /\ m.pc = "llm"
    /\ m' = IdleMention
    /\ outbox' = Append(outbox, ErrorReply(m.user, e))
    /\ UNCHANGED <<now, pending_actions, storeVars, libVars, escaped, r, ats, execLog,
                   stored, removed, mentions>>

\* the LLM stops with its final text and the turn returns; then
\* client.chat_postMessage(text=response_text): the reply gets its ts; when
\* the call raises, the error is reported instead and nothing is stored
PostReply(ok, e) ==
    /\ m.pc = "llm"
    /\ IF ok
       THEN /\ outbox' = Append(outbox, [text |-> "response", to |-> m.user])
            /\ m' = IF m.pending # None
                    THEN [m EXCEPT !.pc = "store"] @@ [ts |-> Ts(Len(outbox) + 1)]
                    ELSE IdleMention
       ELSE /\ outbox' = Append(outbox, ErrorReply(m.user, e))
            /\ m' = IdleMention
    /\ UNCHANGED <<now, pending_actions, storeVars, libVars, escaped, r, ats, execLog,
                   stored, removed, mentions>>

\* user_id=user_id: the owner handle_mention passes to pending_actions.store
store_owner(event_user) == event_user

\* pending_actions.store(message_ts, channel_id, result["pending_action"],
\* user_id), then the two reactions_add calls, whose failure is only logged
StorePending ==
    /\ m.pc = "store"
    /\ pending_actions' = PendingActionsStore_store(pending_actions, now, m.ts, Channel,
                                                     m.pending, store_owner(m.user))
    /\ stored' = [k \in DOMAIN stored \cup {Key(Channel, m.ts)} |->
                     IF k = Key(Channel, m.ts)
                     THEN [user_id |-> store_owner(m.user), turn_user |-> m.user,
                           created_at |-> now, action |-> m.pending]
                     ELSE stored[k]]
    /\ m' = IdleMention
    /\ UNCHANGED <<now, storeVars, libVars, escaped, r, outbox, ats, execLog, removed,
                   mentions>>

----------------------------------------------------------------------------
(* AccessLevel (src/ashby_client.py) *)

\* class AccessLevel(IntEnum)
READ_ONLY == 0
SCHEDULE_ONLY == 1
COMMENT_ONLY == 2
FULL_WRITE == 3

\* values of ASHBY_ACCESS_LEVEL
AccessLevels == {READ_ONLY, SCHEDULE_ONLY, COMMENT_ONLY, FULL_WRITE}

----------------------------------------------------------------------------
(* handle_reaction, run by the listener threads *)

\* if reaction not in ["white_check_mark", "x"]: return
ConfirmReactions == {"white_check_mark", "x"}

\* A mutant of the owner check: anyone may confirm.
owner_check_Any(pending, user_id) == TRUE

\* if pending.get("user_id") != user_id: return
owner_check(pending, user_id) == pending.user_id = user_id

\* A mutant of the branch on the emoji: every confirmation emoji executes.
is_confirm_Any(reaction) == reaction \in ConfirmReactions

\* if reaction == "white_check_mark": execute, else: cancel
is_confirm(reaction) == reaction = "white_check_mark"

\* what the store held for the reply ts when the handler looked it up, told
\* from the record of store calls: nothing was ever stored for it, the entry
\* was removed by a handler, it is older than TTL, or it is live
Seen(ts) ==
    IF Key(Channel, ts) \notin DOMAIN stored THEN "unstored"
    ELSE IF Key(Channel, ts) \in DOMAIN removed THEN "removed"
    ELSE IF now - stored[Key(Channel, ts)].created_at > TTL THEN "late"
    ELSE "live"

\* the handler of thread p returns; the thread keeps the event and how it
\* ended until it is given the next event
Return(p, outcome, seen) ==
    r' = [r EXCEPT ![p] = [pc |-> "done", reaction |-> r[p].reaction,
                           user |-> r[p].user, ts |-> r[p].ts,
                           outcome |-> outcome, seen |-> seen]]

\* the replies of the bot to a mention: the messages a PendingAction can be
\* stored for.  Reactions to any other message find nothing in the store.
Responses_ts == {Ts(n) : n \in {i \in 1..Len(outbox) : outbox[i].text = "response"}}

\* reaction_added is delivered to thread p; emoji other than the two
\* confirmation emoji are dropped at once.  The threads are interchangeable:
\* t2 is given an event only while t1 is busy.
ReactionAdded(p, reaction, user, ts) ==
    /\ r[p].pc \in {"idle", "done"}
    /\ p = "t2" => r["t1"].pc \notin {"idle", "done"}
    /\ ts \in Responses_ts
    /\ r' = IF reaction \notin ConfirmReactions
            THEN r
            ELSE [r EXCEPT ![p] = [pc |-> "get", reaction |-> reaction,
                                   user |-> user, ts |-> ts]]
    /\ UNCHANGED <<now, pending_actions, storeVars, libVars, escaped, m, outbox, ats,
                   execLog, stored, removed, mentions>>

\* pending = pending_actions.get(channel_id, message_ts), the two early
\* returns on a missing entry and on a foreign owner
ReactionGet(p) ==
    LET got     == PendingActionsStore_get(pending_actions, now, Channel, r[p].ts)
        pending == got[1]
    IN  /\ r[p].pc = "get"
        /\ pending_actions' = got[2]
        /\ IF pending = None
           THEN Return(p, "no_pending", Seen(r[p].ts))
           ELSE IF ~owner_check(pending, r[p].user)
           THEN Return(p, "not_owner", Seen(r[p].ts))
           ELSE r' = [r EXCEPT ![p] = [@ EXCEPT !.pc = "remove"]]
        /\ UNCHANGED <<now, storeVars, libVars, escaped, m, outbox, ats, execLog,
                       stored, removed, mentions>>

\* action_data = pending_actions.remove(channel_id, message_ts) and the
\* early return when it is None
ReactionRemove(p) ==
    LET got         == PendingActionsStore_remove(pending_actions, now, Channel, r[p].ts)
        action_data == got[1]
    IN  /\ r[p].pc = "remove"
        /\ pending_actions' = got[2]
        /\ IF action_data = None
           THEN /\ Return(p, "gone", Seen(r[p].ts))
                /\ removed' = removed
           ELSE /\ r' = [r EXCEPT ![p] = [@ EXCEPT !.pc = "finish"]
                                         @@ [action_data |-> action_data,
                                             removed_at |-> now]]
                /\ removed' = [k \in DOMAIN removed \cup {Key(Channel, r[p].ts)} |->
                                  IF k = Key(Channel, r[p].ts)
                                  THEN [reaction |-> r[p].reaction, user |-> r[p].user]
                                  ELSE removed[k]]
        /\ UNCHANGED <<now, storeVars, libVars, escaped, m, outbox, ats, execLog,
                       stored, mentions>>

\* the rest of the handler: the thread lookup (conversations_history, whose
\* failure is caught and only changes the thread replied in), then either
\* execute_confirmed_action and the "Done: ..." reply, or "Action cancelled."
\* post_ok is FALSE when chat_postMessage raises: the call is in no try
\* block, so the exception leaves the handler.  access_level is the
\* _access_level of the module's client, ashby = AshbyClient(...), read from
\* ASHBY_ACCESS_LEVEL when the bot starts and the same for every execution
\* of the run: nothing on this path reads it.
ReactionFinish(p, resp, lookup, post_ok, access_level) ==
    LET entry  == r[p].action_data
        action == entry.action
        res    == execute_confirmed_action(action, resp, lookup)
        n      == Len(execLog) + 1
        reqs   == [i \in 1..Len(res.calls) |->
                      [method |-> res.calls[i].method,
                       endpoint |-> res.calls[i].endpoint,
                       payload |-> res.calls[i].payload,
                       response |-> res.calls[i].response,
                       by |-> "execute_confirmed_action", exec |-> n]]
    IN  /\ r[p].pc = "finish"
        /\ lookup = "raise" => (is_confirm(r[p].reaction) /\ action.action = "create_candidate")
        /\ resp # "ok" => (is_confirm(r[p].reaction) /\ res.calls # <<>>)
        /\ execLog # <<>> => access_level = execLog[1].access_level
        /\ IF is_confirm(r[p].reaction)
           THEN /\ execLog' = Append(execLog,
                       [key |-> Key(entry.channel_id, entry.message_ts),
                        access_level |-> access_level,
                        actor |-> r[p].user, reaction |-> r[p].reaction,
                        owner |-> entry.user_id, created_at |-> entry.created_at,
                        removed_at |-> r[p].removed_at, action |-> action,
                        calls |-> res.calls, response |-> resp, text |-> res.text,
                        replied |-> post_ok])
                /\ ats' = ats \o reqs
                /\ outbox' = IF post_ok
                             THEN Append(outbox, [text |-> "done", result |-> res.text,
                                                  to |-> r[p].user, exec |-> n])
                             ELSE outbox
                /\ Return(p, "executed", "live")
           ELSE /\ execLog' = execLog
                /\ ats' = ats
                /\ outbox' = IF post_ok
                             THEN Append(outbox, [text |-> "cancelled", to |-> r[p].user,
                                                  key |-> Key(entry.channel_id,
                                                              entry.message_ts)])
                             ELSE outbox
                /\ Return(p, "cancelled", "live")
        /\ escaped' = IF post_ok THEN escaped
                       ELSE escaped \cup {[handler |-> "handle_reaction",
                                           call |-> "chat_postMessage",
                                           key |-> Key(entry.channel_id, entry.message_ts)]}
        /\ UNCHANGED <<now, pending_actions, storeVars, libVars, m, stored, removed,
                       mentions>>

----------------------------------------------------------------------------
(* Spec: mentions and reactions, interleaved *)

Flow(tools) ==
    \/ Tick
    \/ \E u \in Users : Mention(u)
    \/ \E t \in tools, i \in Payloads, f \in BOOLEAN : ToolUse(t, i, f)
    \/ \E e \in ErrorTexts : LLMRaises(e)
    \/ \E ok \in BOOLEAN, e \in ErrorTexts : PostReply(ok, e)
    \/ StorePending
    \/ \E p \in Threads, e \in Reactions, u \in Users, ts \in Responses_ts :
          ReactionAdded(p, e, u, ts)
    \/ \E p \in Threads : ReactionGet(p)
    \/ \E p \in Threads : ReactionRemove(p)
    \/ \E p \in Threads, resp \in Responses, lookup \in {"ok", "raise"},
          post_ok \in BOOLEAN, access_level \in AccessLevels :
             ReactionFinish(p, resp, lookup, post_ok, access_level)

Next == Flow(CoreTools)

Spec == Init /\ [][Next]_vars

\* the same handlers with the LLM picking from every tool
NextKinds == Flow(ToolNames)

SpecKinds == Init /\ [][NextKinds]_vars

----------------------------------------------------------------------------
(* Claims about the confirmation flow, checked under Spec and SpecKinds *)

\* the key of the reply thread p's event is attached to
KeyOf(p) == Key(Channel, r[p].ts)

\* thread p's handler takes a step
Steps(p) == r[p].pc \in {"get", "remove", "finish"} /\ r'[p] # r[p]

\* the step makes no ATS request, runs no action and posts nothing
NoEffect == ats' = ats /\ execLog' = execLog /\ outbox' = outbox

\* execute_confirmed_action has run for the entry stored at key k
Executed(k) == \E i \in 1..Len(execLog) : execLog[i].key = k

\* C1: a mutating ATS request is made only by execute_confirmed_action, and
\* that runs only for a white_check_mark whose actor is the owner of the
\* entry stored at the coordinate, removed at an age of at most TTL, the
\* owner being the user whose mention started the turn; execute_tool makes
\* no mutating request for any confirmation tool: it returns the
\* requires_confirmation payload, or an error when its lookup finds nothing.
C1_MutationOnlyAfterOwnerConfirm ==
    /\ \A i \in 1..Len(ats) :
          /\ ats[i].by = "execute_confirmed_action"
          /\ ats[i].exec \in 1..Len(execLog)
    /\ \A i \in 1..Len(execLog) :
          LET e == execLog[i]
          IN  /\ e.reaction = "white_check_mark"
              /\ e.key \in DOMAIN stored
              /\ e.actor = stored[e.key].user_id
              /\ e.owner = stored[e.key].user_id
              /\ stored[e.key].user_id = stored[e.key].turn_user
              /\ e.action = stored[e.key].action
              /\ e.created_at = stored[e.key].created_at
              /\ e.removed_at - e.created_at <= TTL
    /\ \A t \in DOMAIN ConfirmTools, i \in Payloads, f \in BOOLEAN :
          LET res == execute_tool(t, i, f)
          IN  /\ res.mutations = <<>>
              /\ \/ confirmation_check(res.result) = "pending"
                 \/ "error" \in DOMAIN res.result.value

\* C1 witness: a confirmed action has sent a mutating request to the ATS
C1_Witness ==
    \E i \in 1..Len(ats) :
        /\ ats[i].by = "execute_confirmed_action"
        /\ execLog[ats[i].exec].actor = stored[execLog[ats[i].exec].key].turn_user

\* C2: while the entry at a coordinate is live, no step of a handler for a
\* reaction of another identity than its owner has any effect, and get
\* still returns the entry after the step.
C2_NonOwnerNoEffect ==
    [][\A p \in Threads :
          (/\ Steps(p)
           /\ KeyOf(p) \in DOMAIN pending_actions
           /\ pending_actions[KeyOf(p)].user_id # r[p].user
           /\ now - pending_actions[KeyOf(p)].created_at <= TTL)
          => /\ NoEffect
             /\ PendingActionsStore_get(pending_actions', now', Channel, r[p].ts)[1]
                   = pending_actions[KeyOf(p)]]_vars

\* C2 witness: a handler returned on the owner check and the entry is there
C2_Witness ==
    \E p \in Threads :
        /\ r[p].pc = "done"
        /\ r[p].outcome = "not_owner"
        /\ KeyOf(p) \in DOMAIN pending_actions
        /\ pending_actions[KeyOf(p)].user_id # r[p].user
        /\ PendingActionsStore_get(pending_actions, now, Channel, r[p].ts)[1] # None

\* C3: once the action stored at a coordinate has been executed, the lookup
\* of every later acknowledgement on that coordinate finds nothing and the
\* handler returns without any effect.
C3_LaterAckIsNoOp ==
    [][\A p \in Threads :
          (Steps(p) /\ r[p].pc = "get" /\ Executed(KeyOf(p)))
          => /\ NoEffect
             /\ r'[p].pc = "done"
             /\ r'[p].outcome = "no_pending"
             /\ KeyOf(p) \notin DOMAIN pending_actions']_vars

\* C3 witness: the owner's second white_check_mark after the execution
C3_Witness ==
    \E p \in Threads :
        /\ r[p].pc = "done"
        /\ r[p].outcome = "no_pending"
        /\ r[p].seen = "removed"
        /\ r[p].reaction = "white_check_mark"
        /\ Executed(KeyOf(p))
        /\ r[p].user = stored[KeyOf(p)].user_id

\* C4: under every interleaving of the handlers' get, owner check and remove
\* steps, the action stored at a coordinate is executed at most once and at
\* most one mutating request is made for it.
C4_AtMostOnceConcurrent ==
    /\ \A i, j \in 1..Len(execLog) : execLog[i].key = execLog[j].key => i = j
    /\ \A i, j \in 1..Len(ats) :
          (/\ ats[i].by = "execute_confirmed_action"
           /\ ats[j].by = "execute_confirmed_action"
           /\ ats[i].exec = ats[j].exec) => i = j

\* C4 witness: two handlers passed the owner check for the same entry; one
\* removed and executed it, the other got None from remove
C4_Witness ==
    \E p \in Threads :
        /\ r[p].pc = "done"
        /\ r[p].outcome = "gone"
        /\ r[p].seen = "removed"
        /\ r[p].reaction = "white_check_mark"
        /\ removed[KeyOf(p)].reaction = "white_check_mark"
        /\ removed[KeyOf(p)].user = r[p].user
        /\ Executed(KeyOf(p))

\* C5: when the handler of the owner's x removed the entry, the entry is
\* gone, no action is ever executed for the coordinate and no mutating
\* request is made for it, whatever acknowledgement follows.
C5_RejectedNeverExecutes ==
    \A k \in DOMAIN removed :
        removed[k].reaction = "x" =>
            /\ k \notin DOMAIN pending_actions
            /\ ~Executed(k)
            /\ \A i \in 1..Len(ats) :
                  ats[i].exec \in 1..Len(execLog) => execLog[ats[i].exec].key # k

\* C5 witness: after the owner's x, the owner's white_check_mark found nothing
C5_Witness ==
    \E p \in Threads :
        /\ r[p].pc = "done"
        /\ r[p].outcome = "no_pending"
        /\ r[p].seen = "removed"
        /\ r[p].reaction = "white_check_mark"
        /\ removed[KeyOf(p)].reaction = "x"
        /\ removed[KeyOf(p)].user = r[p].user
        /\ r[p].user = stored[KeyOf(p)].user_id

\* C6: a store access of the owner's handler made more than TTL seconds
\* after the entry was created ends the handler: nothing is executed, no
\* request is made and no reply is posted.
C6_LateAckIsNoOp ==
    [][\A p \in Threads :
          (/\ Steps(p)
           /\ r[p].pc \in {"get", "remove"}
           /\ KeyOf(p) \in DOMAIN stored
           /\ r[p].user = stored[KeyOf(p)].user_id
           /\ now - stored[KeyOf(p)].created_at > TTL)
          => /\ NoEffect
             /\ r'[p].pc = "done"
             /\ r'[p].outcome \in {"no_pending", "gone"}]_vars

\* C6 witness: the owner's acknowledgement of an expired entry has returned
C6_Witness ==
    \E p \in Threads :
        /\ r[p].pc = "done"
        /\ r[p].outcome = "no_pending"
        /\ r[p].seen = "late"
        /\ r[p].user = stored[KeyOf(p)].user_id

\* the AshbyClient method that performs each kind of action
ExpectedMethod ==
    [add_note               |-> "add_candidate_note",
     move_stage             |-> "move_application_stage",
     create_candidate       |-> "create_candidate",
     schedule_interview     |-> "schedule_interview",
     cancel_interview       |-> "cancel_interview",
     reschedule_interview   |-> "update_interview",
     create_offer           |-> "create_offer",
     reject_application     |-> "reject_application",
     archive_candidate      |-> "archive_candidate",
     apply_candidate_to_job |-> "create_application"]

\* C9: for each of the ten kinds, the confirmed action makes the request of
\* the client operation of that kind, with the stored payload.
C9_EachKindPerformsItsOperation ==
    \A i \in 1..Len(execLog) :
        \E j \in 1..Len(ats) :
            /\ ats[j].exec = i
            /\ ats[j].method = ExpectedMethod[execLog[i].action.action]
            /\ ats[j].payload = execLog[i].action.payload

\* C10: the "Done: ..." reply says success only when the request succeeded,
\* and says failure whenever the call raised or the ATS answered a failure.
C10_ReplyReportsOutcome ==
    \A n \in 1..Len(outbox) :
        outbox[n].text = "done" =>
            LET e == execLog[outbox[n].exec]
                succeeded == e.calls # <<>> /\ e.response = "ok"
            IN  /\ outbox[n].result = "success" => succeeded
                /\ ~succeeded => outbox[n].result = "failed"

----------------------------------------------------------------------------
(* Claims about PendingActionsStore, checked under SpecStore *)

\* the entry a get or remove of ret's coordinate hands out when it finds
\* the store call recorded in ret.prior
PriorEntry ==
    [action |-> ret.prior.action, user_id |-> ret.prior.user_id,
     channel_id |-> ret.channel_id, message_ts |-> ret.message_ts,
     created_at |-> ret.prior.created_at]

\* C7: get and remove return None for a coordinate whose entry was created
\* more than TTL seconds ago (or that holds none), and return the entry when
\* its age is at most TTL and it was not removed since it was stored.
C7_ExpiryOnAccess ==
    ret.op \in {"get", "remove"} =>
        IF ret.prior # None /\ ret.at - ret.prior.created_at <= TTL
        THEN ret.result = PriorEntry
        ELSE ret.result = None

\* C7 witness: Scenario B, stored at t=0, get at t=301 returns None
C7_Witness ==
    /\ ret.op = "get"
    /\ ret.prior # None
    /\ ret.prior.created_at = 0
    /\ ret.at = TTL + 1
    /\ ret.result = None

\* C7 witness of the other half: an entry exactly TTL seconds old is returned
C7_WitnessAtTTL ==
    /\ ret.op \in {"get", "remove"}
    /\ ret.prior # None
    /\ ret.at - ret.prior.created_at = TTL
    /\ ret.result = PriorEntry

\* C8: at most one PendingAction exists per coordinate, and it is the last
\* one stored there: its action, owner and creation time are those of the
\* last store call, with nothing of an earlier call left.
C8_LastWriterWins ==
    /\ \A k1, k2 \in DOMAIN pending_actions :
          (/\ pending_actions[k1].channel_id = pending_actions[k2].channel_id
           /\ pending_actions[k1].message_ts = pending_actions[k2].message_ts)
          => k1 = k2
    /\ \A k \in DOMAIN pending_actions :
          LET e == pending_actions[k]
              c == <<e.channel_id, e.message_ts>>
          IN  /\ k = Key(e.channel_id, e.message_ts)
              /\ ref[c] # None
              /\ e.action = ref[c].action
              /\ e.user_id = ref[c].user_id
              /\ e.created_at = ref[c].created_at
    /\ (ret.op = "get" /\ ret.result # None) =>
          /\ ret.result.action = ret.prior.action
          /\ ret.result.user_id = ret.prior.user_id
          /\ ret.result.created_at = ret.prior.created_at

\* C8 witness: two stores at one coordinate, differing in action, owner and
\* time, the first still unexpired, then a get that returns the second
C8_Witness ==
    /\ ret.op = "get"
    /\ ret.result # None
    /\ ret.prior.prev # None
    /\ ret.prior.prev.action # ret.prior.action
    /\ ret.prior.prev.user_id # ret.prior.user_id
    /\ ret.prior.prev.created_at < ret.prior.created_at
    /\ ret.at - ret.prior.prev.created_at <= TTL
    /\ ret.result.action = ret.prior.action

----------------------------------------------------------------------------
(* AshbyClient.redact_data (src/ashby_client.py) *)

\* Python values, tagged with their type
Str(s) == [t |-> "str", s |-> s]
Num(n) == [t |-> "num", n |-> n]
List(items) == [t |-> "list", items |-> items]
Dict(d) == [t |-> "dict", d |-> d]

\* class Role(IntEnum)
USER == 0
ADMIN == 1

Roles == {USER, ADMIN}

\* a string is a sequence of tokens: one token per character of the classes
\* the currency pattern tells apart, one token per other word
Symbols == {"$"}
Digits == {"1"}
Separators == {","}
Spaces == {" "}
Magnitudes == {"k"}
Codes == {"USD"}
Alphabet == Symbols \cup Digits \cup Separators \cup Spaces \cup Magnitudes
            \cup Codes \cup {"a"}

Marker == "[REDACTED]"

pii_fields ==
    {"primaryEmailAddress", "primaryPhoneNumber", "socialLinks", "email",
     "phone", "salary", "compensation", "bonus", "equity", "fixedAllowance",
     "signOnBonus", "variableBonus", "annualSalary", "baseSalary",
     "totalTargetCash", "onTargetEarnings"}

\* \d+ from position i, greedy: the position after the run of digits
RECURSIVE DigitsEnd(_, _)
DigitsEnd(s, i) == IF At(s, i) \in Digits THEN DigitsEnd(s, i + 1) ELSE i

\* \d+(?:[.,]\d+)? from position i: the position after it, 0 if no digit at i
AmountEnd(s, i) ==
    IF At(s, i) \notin Digits THEN 0
    ELSE LET p == DigitsEnd(s, i)
         IN  IF At(s, p) \in Separators /\ At(s, p + 1) \in Digits
             THEN DigitsEnd(s, p + 1)
             ELSE p

\* currency_pattern matched at position i: the position after the match, 0
\* if there is none.  First alternative: symbol, optional space, amount,
\* optional magnitude; second: amount, optional space, symbol or code.
MatchEnd(s, i) ==
    IF At(s, i) \in Symbols
    THEN LET j == IF At(s, i + 1) \in Spaces THEN i + 2 ELSE i + 1
             p == AmountEnd(s, j)
         IN  IF p = 0 THEN 0
             ELSE IF At(s, p) \in Spaces /\ At(s, p + 1) \in Magnitudes THEN p + 2
             ELSE IF At(s, p) \in Magnitudes THEN p + 1
             ELSE p
    ELSE LET p == AmountEnd(s, i)
             q == IF p # 0 /\ At(s, p) \in Spaces THEN p + 1 ELSE p
         IN  IF p # 0 /\ At(s, q) \in Symbols \cup Codes THEN q + 1 ELSE 0

\* A mutant of re.sub: only the first match is replaced (count=1).
RECURSIVE SubFrom_First(_, _)
SubFrom_First(s, i) ==
    IF i > Len(s) THEN <<>>
    ELSE IF MatchEnd(s, i) # 0
         THEN <<Marker>> \o SubSeq(s, MatchEnd(s, i), Len(s))
         ELSE <<s[i]>> \o SubFrom_First(s, i + 1)

\* re.sub(currency_pattern, "[REDACTED]", value) from position i on:
\* leftmost, non-overlapping matches are replaced
RECURSIVE SubFrom(_, _)
SubFrom(s, i) ==
    IF i > Len(s) THEN <<>>
    ELSE IF MatchEnd(s, i) # 0
         THEN <<Marker>> \o SubFrom(s, MatchEnd(s, i))
         ELSE <<s[i]>> \o SubFrom(s, i + 1)

\* A mutant of the role test: ADMIN itself is redacted for.
is_admin_Strict(role) == role > ADMIN

\* if role >= Role.ADMIN: return data
is_admin(role) == role >= ADMIN

\* A mutant of the nested-value test: lists inside a mapping are skipped.
is_container_DictOnly(value) == value.t = "dict"

\* isinstance(value, (dict, list))
is_container(value) == value.t \in {"dict", "list"}

\* redact_data(data, role)
RECURSIVE redact_data(_, _)
redact_data(data, role) ==
    IF is_admin(role) THEN data
    ELSE IF data.t = "list"
    THEN List([i \in 1..Len(data.items) |-> redact_data(data.items[i], role)])
    ELSE IF data.t = "dict"
    THEN LET redacted == [k \in DOMAIN data.d |->
                            IF k \in pii_fields THEN Str(<<Marker>>) ELSE data.d[k]]
         IN  Dict([k \in DOMAIN redacted |->
                     IF redacted[k].t = "str" THEN Str(SubFrom(redacted[k].s, 1))
                     ELSE IF is_container(redacted[k])
                          THEN redact_data(redacted[k], role)
                          ELSE redacted[k]])
    ELSE data

----------------------------------------------------------------------------
(* SpecRedact: redact_data applied to a value, and again to its result *)

MaxStrLen == 4
MaxDepth == 2

\* all strings over the alphabet of at most n tokens
RECURSIVE StrsUpTo(_)
StrsUpTo(n) ==
    IF n = 0 THEN {<<>>}
    ELSE LET S == StrsUpTo(n - 1)
         IN  S \cup {Append(x, c) : x \in {y \in S : Len(y) = n - 1}, c \in Alphabet}

\* two sensitive keys and two others
RedactKeys == {"name", "notes", "email", "salary"}

\* "Jo", "$120,000", a number, a sentence with an amount
Leaves == {Str(<<"Jo">>), Str(<<"$", "1", ",", "1">>), Num(7),
           Str(<<"a", " ", "1", " ", "USD">>)}

\* mappings of at most two keys to leaves
FlatDicts ==
    {Dict(d) : d \in UNION {[K -> Leaves] :
                              K \in {X \in SUBSET RedactKeys : Cardinality(X) <= 2}}}

\* the values nested n levels deeper: a mapping or a list around a value
RECURSIVE Nest(_)
Nest(n) ==
    IF n = 0 THEN Leaves \cup FlatDicts
    ELSE LET S == Nest(n - 1)
         IN  S \cup {Dict(k :> v) : k \in RedactKeys, v \in S}
               \cup {List(<<v>>) : v \in S}
               \cup {List(<<v, Str(<<"Jo">>)>>) : v \in Leaves}

RedactValues ==
    Nest(MaxDepth) \cup {Dict("notes" :> Str(x)) : x \in StrsUpTo(MaxStrLen)}

\* data = client.redact_data(data, role)
RedactCall(data, role) ==
    /\ rd = None
    /\ rd' = [data |-> data, role |-> role, out |-> redact_data(data, role),
              twice |-> None]
    /\ UNCHANGED <<now, botVars, concVars, memAux, mcp_client, mcp_log, rate_requests,
                   rate_hist, conversations, appended>>

\* the result is redacted once more, with the same role
RedactAgain ==
    /\ rd # None
    /\ rd.twice = None
    /\ rd' = [rd EXCEPT !.twice = redact_data(rd.out, rd.role)]
    /\ UNCHANGED <<now, botVars, concVars, memAux, mcp_client, mcp_log, rate_requests,
                   rate_hist, conversations, appended>>

NextRedact ==
    \/ rd = None /\ \E data \in RedactValues, role \in Roles : RedactCall(data, role)
    \/ RedactAgain

SpecRedact == Init /\ [][NextRedact]_vars

----------------------------------------------------------------------------
(* Claims about redact_data, checked under SpecRedact *)

\* out has the shape of v, and in every mapping of v, at every depth, the
\* value of every sensitive key is the marker in out
RECURSIVE SensitiveReplaced(_, _)
SensitiveReplaced(v, out) ==
    IF v.t = "dict"
    THEN /\ out.t = "dict"
         /\ DOMAIN out.d = DOMAIN v.d
         /\ \A k \in DOMAIN v.d :
               IF k \in pii_fields THEN out.d[k] = Str(<<Marker>>)
               ELSE SensitiveReplaced(v.d[k], out.d[k])
    ELSE IF v.t = "list"
    THEN /\ out.t = "list"
         /\ Len(out.items) = Len(v.items)
         /\ \A i \in 1..Len(v.items) : SensitiveReplaced(v.items[i], out.items[i])
    ELSE out.t = v.t

\* role USER, {"name": "Jo", "salary": "$120,000"}
ScenarioA == Dict([name |-> Str(<<"Jo">>), salary |-> Str(<<"$", "1", ",", "1">>)])

\* C14: for a role below ADMIN, the result of redact_data has the marker as
\* the value of every sensitive key, in every mapping of the value at every
\* nesting depth; {name: Jo, salary: $120,000} gives {name: Jo, salary:
\* [REDACTED]}.
C14_SensitiveKeysRedacted ==
    (rd # None /\ rd.role < ADMIN) =>
        /\ SensitiveReplaced(rd.data, rd.out)
        /\ rd.data = ScenarioA =>
              rd.out = Dict([name |-> Str(<<"Jo">>), salary |-> Str(<<Marker>>)])

\* C14 witness: a sensitive key in a mapping inside a list inside a mapping
C14_Witness ==
    /\ rd # None
    /\ rd.role = USER
    /\ rd.data.t = "dict"
    /\ \E k \in DOMAIN rd.data.d :
          /\ rd.data.d[k].t = "list"
          /\ rd.data.d[k].items[1].t = "dict"
          /\ "salary" \in DOMAIN rd.data.d[k].items[1].d
          /\ rd.data.d[k].items[1].d["salary"] # Str(<<Marker>>)
          /\ rd.out.d[k].items[1].d["salary"] = Str(<<Marker>>)

\* C15: for a role of at least ADMIN, redact_data returns its argument.
C15_AdminUnchanged ==
    (rd # None /\ rd.role >= ADMIN) => rd.out = rd.data

\* C15 witness: an ADMIN call on a value with a sensitive key and an amount
C15_Witness ==
    /\ rd # None
    /\ rd.role = ADMIN
    /\ rd.data = ScenarioA
    /\ rd.out = ScenarioA

\* C16: redacting the result of redact_data again, with the same role,
\* gives the same result.
C16_Idempotent ==
    (rd # None /\ rd.twice # None) => rd.twice = rd.out

\* C16 witness: a string with two amounts was redacted, and redacted again
C16_Witness ==
    /\ rd # None
    /\ rd.twice # None
    /\ rd.role = USER
    /\ rd.data = Dict("notes" :> Str(<<"$", "1", "$", "1">>))
    /\ rd.out = Dict("notes" :> Str(<<Marker, Marker>>))
    /\ rd.twice = rd.out

----------------------------------------------------------------------------
(* The MCP server's call_tool (src/server.py) *)

\* the table of call_tool
tools_by_level ==
    [ashby_add_note   |-> COMMENT_ONLY,
     ashby_move_stage |-> FULL_WRITE]

\* tools_by_level.get(name, AccessLevel.READ_ONLY)
required_level(name) ==
    IF name \in DOMAIN tools_by_level THEN tools_by_level[name] ELSE READ_ONLY

\* A mutant of the access check: the required level itself is denied.
access_denied_Inclusive(access_level, name) == access_level <= required_level(name)

\* if client._access_level < required_level: return the denial
access_denied(access_level, name) == access_level < required_level(name)

\* ashby_environment.json: not there, younger than 24 hours, older
Lexicon == {"absent", "fresh", "stale"}

\* the requests of AshbyMapper.map_environment: get_interview_stages(refresh),
\* get_open_jobs, get_sources(refresh)
map_environment == <<"application.list", "job.list", "source.list">>

\* get_client: the client, created on first use, and the ATS requests made
\* by _refresh_lexicon_if_stale when it is created
get_client(client, access_level, lexicon) ==
    IF client # None THEN [client |-> client, requests |-> <<>>]
    ELSE [client |-> [access_level |-> access_level],
          requests |-> IF lexicon = "stale" THEN map_environment ELSE <<>>]

\* arguments.get("requester_role", "USER").upper(); "" stands for no argument
RequesterRoles == {"", "user", "admin", "ADMIN"}

requester_role(arg) ==
    LET role_str == CASE arg = ""      -> "USER"
                      [] arg = "user"  -> "USER"
                      [] arg = "admin" -> "ADMIN"
                      [] OTHER         -> arg
    IN  IF role_str = "ADMIN" THEN ADMIN ELSE USER

\* what the ATS holds: one active candidate
Email == Str(<<"jo@x.io">>)
Candidate == Dict([id |-> Str(<<"c1">>), name |-> Str(<<"Jo">>),
                   primaryEmailAddress |-> Dict([value |-> Email])])
Application == Dict([id |-> Str(<<"a1">>), candidate |-> Candidate])

\* client.get_stale_candidates(): rows with the address under "email"
StaleRows == List(<<Dict([candidate_name |-> Str(<<"Jo">>), email |-> Email,
                          candidate_id |-> Str(<<"c1">>)])>>)

\* the tools of call_tool that are modelled; "ashby_none" is no tool's name
ReadTools == {"ashby_pipeline_overview", "ashby_stale_candidates",
              "ashby_search_candidates", "ashby_candidates_by_job",
              "ashby_candidates_by_stage"}
WriteTools == {"ashby_add_note", "ashby_move_stage", "ashby_batch_move"}
ServerTools == ReadTools \cup WriteTools \cup {"ashby_none"}

\* AshbyClient has no search_candidates and no move_candidate_stage
MissingMethod == Str(<<"Error: 'AshbyClient' object has no attribute">>)

\* the branch of call_tool for the tool: the ATS requests it makes and the
\* values its reply text is formatted from
tool_branch(name, arguments, role) ==
    CASE name = "ashby_pipeline_overview" ->
           [requests |-> <<"application.list", "job.list">>,
            text |-> <<Str(<<"## Pipeline Overview">>)>>]
      [] name = "ashby_stale_candidates" ->
           LET stale == redact_data(StaleRows, role)
           IN  [requests |-> <<"application.list">>,
                text |-> <<stale.items[1].d["candidate_name"],
                           stale.items[1].d["email"]>>]
      [] name = "ashby_search_candidates" ->
           [requests |-> <<>>, text |-> <<MissingMethod>>]
      [] name = "ashby_candidates_by_job" ->
           [requests |-> <<"job.list", "application.list">>,
            text |-> <<Application.d["candidate"].d["name"],
                       Application.d["candidate"].d["primaryEmailAddress"].d["value"]>>]
      [] name = "ashby_candidates_by_stage" ->
           [requests |-> <<"application.list">>,
            text |-> <<Application.d["candidate"].d["name"],
                       Application.d["candidate"].d["primaryEmailAddress"].d["value"]>>]
      [] name = "ashby_add_note" ->
           [requests |-> <<"candidate.createNote">>,
            text |-> <<Str(<<"Note added successfully to candidate">>), arguments>>]
      [] name \in {"ashby_move_stage", "ashby_batch_move"} ->
           [requests |-> <<>>, text |-> <<MissingMethod>>]
      [] OTHER ->
           [requests |-> <<>>, text |-> <<Str(<<"Unknown tool">>)>>]

\* the tools whose client methods let the exception of a failed request
\* out; add_candidate_note catches it and returns False
RaisingTools == {"ashby_pipeline_overview", "ashby_stale_candidates",
                 "ashby_candidates_by_job", "ashby_candidates_by_stage"}

\* the exception of a failed request, with its str(e)
ServerErrors == {[str |-> <<"Bearer", " ", "abc123">>]}

\* except Exception as e: the branch whose first request raised replies
\* f"Error: {str(e)}"
tool_error(branch, e) ==
    [requests |-> <<branch.requests[1]>>, text |-> <<Str(<<"Error: ">> \o e.str)>>]

----------------------------------------------------------------------------
(* SpecServer: call_tool invocations of one server process *)

MaxToolCalls == 2

\* call_tool(name, arguments).  access_level and lexicon are the environment
\* (ASHBY_ACCESS_LEVEL, the age of ashby_environment.json), read only when
\* the client is created.
CallTool(name, arguments, role_arg, access_level, lexicon, failure) ==
    LET got == get_client(mcp_client, access_level, lexicon)
        client == got.client
        denied == access_denied(client.access_level, name)
        role == requester_role(role_arg)
        branch == IF failure = None THEN tool_branch(name, arguments, role)
                  ELSE tool_error(tool_branch(name, arguments, role), failure)
    IN  /\ Len(mcp_log) < MaxToolCalls
        /\ failure # None => (~denied /\ name \in RaisingTools)
        /\ mcp_client # None => (access_level = mcp_client.access_level /\ lexicon = "absent")
        /\ mcp_client' = client
        /\ mcp_log' = Append(mcp_log,
              [name |-> name, role |-> role, access_level |-> client.access_level,
               first |-> mcp_client = None,
               before_check |-> got.requests,
               denied |-> denied,
               after_check |-> IF denied THEN <<>> ELSE branch.requests,
               error |-> failure,
               text |-> IF denied THEN <<Str(<<"Error: Access Denied.">>)>>
                        ELSE branch.text])
        /\ UNCHANGED <<now, botVars, concVars, memAux, rd, rate_requests, rate_hist,
                       conversations, appended>>

\* the environment is read when the client is created, by the first call
NextServer ==
    /\ Len(mcp_log) < MaxToolCalls
    /\ \E name \in ServerTools, arguments \in Payloads, role_arg \in RequesterRoles,
          access_level \in IF mcp_client = None THEN AccessLevels
                           ELSE {mcp_client.access_level},
          lexicon \in IF mcp_client = None THEN Lexicon ELSE {"absent"},
          failure \in {None} \cup ServerErrors :
           CallTool(name, Str(<<arguments>>), role_arg, access_level, lexicon, failure)

SpecServer == Init /\ [][NextServer]_vars

----------------------------------------------------------------------------
(* Claims about call_tool, checked under SpecServer *)

\* the elements of a sequence
Range(seq) == {seq[i] : i \in 1..Len(seq)}

\* C11: call_tool denies a tool exactly when the access level is below the
\* level the table requires for its name: COMMENT_ONLY for ashby_add_note,
\* FULL_WRITE for ashby_move_stage, READ_ONLY for every other name, which
\* is therefore never denied.
C11_DeniedIffBelowRequired ==
    \A i \in 1..Len(mcp_log) :
        LET e == mcp_log[i]
            required == CASE e.name = "ashby_add_note"   -> 2
                          [] e.name = "ashby_move_stage" -> 3
                          [] OTHER                       -> 0
        IN  /\ e.denied <=> e.access_level < required
            /\ e.name \notin {"ashby_add_note", "ashby_move_stage"} => ~e.denied
            /\ e.denied <=> e.text = <<Str(<<"Error: Access Denied.">>)>>

\* C11 witness: ashby_add_note was denied at SCHEDULE_ONLY, and a later call
\* of a tool that is not in the table went through
C11_Witness ==
    /\ Len(mcp_log) = 2
    /\ mcp_log[1].name = "ashby_add_note"
    /\ mcp_log[1].access_level = SCHEDULE_ONLY
    /\ mcp_log[1].denied
    /\ mcp_log[2].name = "ashby_batch_move"
    /\ ~mcp_log[2].denied

\* C12: when call_tool denies a tool, the invocation makes no ATS request,
\* neither before the denial nor after it, the first invocation of the
\* process included.
C12_NoRequestWhenDenied ==
    \A i \in 1..Len(mcp_log) :
        mcp_log[i].denied =>
            /\ mcp_log[i].before_check = <<>>
            /\ mcp_log[i].after_check = <<>>

\* C13: for a requester below ADMIN, no reply of a read tool carries the
\* unredacted address of a candidate.
C13_ReadOutputRedacted ==
    \A i \in 1..Len(mcp_log) :
        (/\ mcp_log[i].name \in ReadTools
         /\ ~mcp_log[i].denied
         /\ mcp_log[i].role < ADMIN)
        => Email \notin Range(mcp_log[i].text)

\* the ATS requests that change what the ATS holds
MutatingEndpoints == {"candidate.createNote", "application.changeStage"}

\* C26: in call_tool a mutating tool (ashby_add_note, ashby_move_stage,
\* ashby_batch_move) does not perform its mutation within the call: the
\* invocation sends no mutating request to the ATS.
C26_MutationDeferred ==
    \A i \in 1..Len(mcp_log) :
        mcp_log[i].name \in WriteTools =>
            Range(mcp_log[i].after_check) \cap MutatingEndpoints = {}

----------------------------------------------------------------------------
(* RateLimiter (src/slack_bot.py) *)

\* rate_limiter = RateLimiter(max_requests=20, window_seconds=60)
max_requests == 20
window_seconds == 60

\* A mutant of the key of the window: one window for all users.
rate_key_Shared(user_id) == "*"

\* self._requests[user_id]
rate_key(user_id) == user_id

\* the defaultdict(list) read at a key
rate_get(requests, key) == IF key \in DOMAIN requests THEN requests[key] ELSE <<>>

\* the dict with a key assigned
rate_set(requests, key, value) ==
    [k \in DOMAIN requests \cup {key} |-> IF k = key THEN value ELSE requests[k]]

\* A mutant of the pruning: every timestamp is kept.
rate_prune_Keep(timestamps, t, window) == timestamps

\* [ts for ts in self._requests[user_id] if ts > window_start]
rate_prune(timestamps, t, window) ==
    SelectSeq(timestamps, LAMBDA ts : ts > t - window)

\* A mutant of the limit check: one request more than the cap passes.
over_limit_Strict(count, cap) == count > cap

\* len(self._requests[user_id]) >= self._max_requests
over_limit(count, cap) == count >= cap

\* A mutant of is_allowed: the timestamp is recorded before the check.
is_allowed_RecordAlways(requests, user_id, t, cap, window) ==
    LET pruned == rate_prune(rate_get(requests, rate_key(user_id)), t, window)
    IN  [result |-> ~over_limit(Len(pruned), cap),
         requests |-> rate_set(requests, rate_key(user_id), Append(pruned, t))]

\* is_allowed(user_id) at time t of a limiter with the given cap and window:
\* its result and the dict after the call
is_allowed(requests, user_id, t, cap, window) ==
    LET pruned == rate_prune(rate_get(requests, rate_key(user_id)), t, window)
    IN  IF over_limit(Len(pruned), cap)
        THEN [result |-> FALSE,
              requests |-> rate_set(requests, rate_key(user_id), pruned)]
        ELSE [result |-> TRUE,
              requests |-> rate_set(requests, rate_key(user_id), Append(pruned, t))]

\* get_remaining(user_id) at time t: max(0, max_requests - len(recent)); the
\* read of the defaultdict leaves the key in the dict
get_remaining(requests, user_id, t, cap, window) ==
    LET held   == rate_get(requests, rate_key(user_id))
        recent == rate_prune(held, t, window)
    IN  [result |-> IF cap - Len(recent) > 0 THEN cap - Len(recent) ELSE 0,
         requests |-> rate_set(requests, rate_key(user_id), held)]

----------------------------------------------------------------------------
(* SpecRate: a limiter of a small cap and window, called by two users *)

RateCap == 2
RateWindow == 2
MaxRateTime == 3
MaxRateCalls == 5

\* time.time() moves on between calls
RateTick ==
    /\ now < MaxRateTime
    /\ now' = now + 1
    /\ UNCHANGED <<botVars, libVars>>

\* rate_limiter.is_allowed(user_id)
IsAllowedCall(user_id) ==
    LET res == is_allowed(rate_requests, user_id, now, RateCap, RateWindow)
    IN  /\ Len(rate_hist) < MaxRateCalls
        /\ rate_requests' = res.requests
        /\ rate_hist' = Append(rate_hist,
              [user |-> user_id, at |-> now, result |-> res.result,
               before |-> rate_requests, after |-> res.requests])
        /\ UNCHANGED <<now, botVars, concVars, memAux, mcp_client, mcp_log, rd,
                       conversations, appended>>

NextRate ==
    \/ RateTick
    \/ \E user_id \in Users : IsAllowedCall(user_id)

SpecRate == Init /\ [][NextRate]_vars

MaxWindowCalls == 4

\* rate_limiter.get_remaining(user_id)
GetRemainingCall(user_id) ==
    LET res == get_remaining(rate_requests, user_id, now, RateCap, RateWindow)
    IN  /\ Len(rate_hist) < MaxRateCalls
        /\ rate_requests' = res.requests
        /\ rate_hist' = Append(rate_hist,
              [user |-> user_id, at |-> now, remaining |-> res.result,
               before |-> rate_requests, after |-> res.requests])
        /\ UNCHANGED <<now, botVars, concVars, memAux, mcp_client, mcp_log, rd,
                       conversations, appended>>

\* checks and reads of the remaining quota, with the clock moving on
NextRateWindow ==
    \/ RateTick
    \/ Len(rate_hist) < MaxWindowCalls /\ \E user_id \in Users : IsAllowedCall(user_id)
    \/ Len(rate_hist) < MaxWindowCalls /\ \E user_id \in Users : GetRemainingCall(user_id)

SpecRateWindow == Init /\ [][NextRateWindow]_vars

----------------------------------------------------------------------------
(* SpecRateConc: is_allowed called from two listener threads at once.  The
   method takes no lock; its statements are the steps: the clock is read,
   the pruned list is built, it is assigned, the length is checked, the
   timestamp is appended. *)

MaxRateConcCalls == 3

rateConcRest == <<storeVars, flowVars, pending_actions, mcp_client, mcp_log, rd,
                  rate_hist, conversations, appended, memAux, store_ctx, mem_ctx, turn>>

\* the calls begun so far
RateConcCalls ==
    Len(rate_ctx.hist) + Cardinality({c \in StoreCtxs : rate_ctx.run[c].pc # "idle"})

\* is_allowed(user_id) is entered: now = time.time().  The contexts are
\* interchangeable: c2 begins a call only while c1 is in one.
RateBegin(c, user_id) ==
    /\ rate_ctx.run[c].pc = "idle"
    /\ RateConcCalls < MaxRateConcCalls
    /\ c = "c2" => rate_ctx.run["c1"].pc # "idle"
    /\ rate_ctx' = [rate_ctx EXCEPT !.run[c] =
                        [pc |-> "prune", user_id |-> user_id, now |-> now]]
    /\ UNCHANGED <<now, rate_requests, rateConcRest>>

\* [ts for ts in self._requests[user_id] if ts > window_start] is built
RatePrune(c) ==
    LET call == rate_ctx.run[c]
    IN  /\ call.pc = "prune"
        /\ rate_ctx' = [rate_ctx EXCEPT !.run[c] =
               [pc |-> "assign", user_id |-> call.user_id, now |-> call.now,
                pruned |-> rate_prune(rate_get(rate_requests, rate_key(call.user_id)),
                                      call.now, RateWindow)]]
        /\ UNCHANGED <<now, rate_requests, rateConcRest>>

\* self._requests[user_id] = <the list built>
RateAssign(c) ==
    LET call == rate_ctx.run[c]
    IN  /\ call.pc = "assign"
        /\ rate_requests' = rate_set(rate_requests, rate_key(call.user_id), call.pruned)
        /\ rate_ctx' = [rate_ctx EXCEPT !.run[c] =
               [pc |-> "check", user_id |-> call.user_id, now |-> call.now]]
        /\ UNCHANGED <<now, rateConcRest>>

\* the call of context c returns
RateReturn(c, result) ==
    rate_ctx' = [run |-> [rate_ctx.run EXCEPT ![c] = [pc |-> "idle"]],
                 hist |-> Append(rate_ctx.hist,
                            [ctx |-> c, user |-> rate_ctx.run[c].user_id,
                             at |-> rate_ctx.run[c].now, result |-> result])]

\* if len(self._requests[user_id]) >= self._max_requests: return False
RateCheck(c) ==
    LET call == rate_ctx.run[c]
    IN  /\ call.pc = "check"
        /\ IF over_limit(Len(rate_get(rate_requests, rate_key(call.user_id))), RateCap)
           THEN RateReturn(c, FALSE)
           ELSE rate_ctx' = [rate_ctx EXCEPT !.run[c].pc = "append"]
        /\ UNCHANGED <<now, rate_requests, rateConcRest>>

\* self._requests[user_id].append(now); return True
RateAppend(c) ==
    LET call == rate_ctx.run[c]
        key  == rate_key(call.user_id)
    IN  /\ call.pc = "append"
        /\ rate_requests' = rate_set(rate_requests, key,
                                     Append(rate_get(rate_requests, key), call.now))
        /\ RateReturn(c, TRUE)
        /\ UNCHANGED <<now, rateConcRest>>

\* time.time() moves on, also while calls are in progress
RateConcTick ==
    /\ now < MaxRateTime
    /\ now' = now + 1
    /\ UNCHANGED <<rate_requests, rate_ctx, rateConcRest>>

NextRateConc ==
    \/ RateConcTick
    \/ \E c \in StoreCtxs, user_id \in Users : RateBegin(c, user_id)
    \/ \E c \in StoreCtxs : RatePrune(c)
    \/ \E c \in StoreCtxs : RateAssign(c)
    \/ \E c \in StoreCtxs : RateCheck(c)
    \/ \E c \in StoreCtxs : RateAppend(c)

SpecRateConc == Init /\ [][NextRateConc]_vars

----------------------------------------------------------------------------
(* Claims about RateLimiter, checked under SpecRate *)

\* the earlier calls of the same user that were allowed less than a window
\* before call i
CountedBefore(i) ==
    {j \in 1..(i - 1) : /\ rate_hist[j].user = rate_hist[i].user
                        /\ rate_hist[j].result
                        /\ rate_hist[i].at - rate_hist[j].at < RateWindow}

\* the results of is_allowed for one user, called at the given times on a
\* limiter of the configured cap and window
RECURSIVE ResultsFrom(_, _, _)
ResultsFrom(requests, times, i) ==
    IF i > Len(times) THEN <<>>
    ELSE LET res == is_allowed(requests, "u1", times[i], max_requests, window_seconds)
         IN  <<res.result>> \o ResultsFrom(res.requests, times, i + 1)

\* 20 calls within 10 s, a 21st in the same window, a 22nd at t = 61 s
ScenarioD_Times == [i \in 1..22 |-> IF i <= 21 THEN i \div 2 ELSE 61]

Occurrences(seq, t) == Cardinality({i \in 1..Len(seq) : seq[i] = t})

\* C18: is_allowed adds the current timestamp to the identity's window
\* exactly when it returns true; a refused call leaves the window with the
\* timestamps it had, those older than the window removed.
C18_RecordsIffAllowed ==
    \A i \in 1..Len(rate_hist) :
        LET e == rate_hist[i]
            before == rate_get(e.before, e.user)
            after == rate_get(e.after, e.user)
        IN  /\ Occurrences(after, e.at) =
                  Occurrences(before, e.at) + (IF e.result THEN 1 ELSE 0)
            /\ ~e.result =>
                  after = SelectSeq(before, LAMBDA ts : e.at - ts < RateWindow)

\* C18 witness: a refused call, with a full window before and after it
C18_Witness ==
    \E i \in 1..Len(rate_hist) :
        /\ ~rate_hist[i].result
        /\ Len(rate_get(rate_hist[i].after, rate_hist[i].user)) = RateCap
        /\ rate_hist[i].at \notin
              Range(rate_get(rate_hist[i].before, rate_hist[i].user))

\* the calls of one user among the first n, in order
RECURSIVE OwnCalls(_, _)
OwnCalls(user_id, n) ==
    IF n = 0 THEN <<>>
    ELSE IF rate_hist[n].user = user_id
         THEN Append(OwnCalls(user_id, n - 1), rate_hist[n])
         ELSE OwnCalls(user_id, n - 1)

\* the results of one user's calls made on a limiter no one else calls
RECURSIVE Alone(_, _, _)
Alone(requests, own, i) ==
    IF i > Len(own) THEN <<>>
    ELSE LET res == is_allowed(requests, own[i].user, own[i].at, RateCap, RateWindow)
         IN  <<res.result>> \o Alone(res.requests, own, i + 1)

\* C19: is_allowed(u) leaves the window of every other identity as it was,
\* and its results are those u would get if no other identity made a call.
C19_PerIdentity ==
    /\ \A i \in 1..Len(rate_hist), v \in Users :
          v # rate_hist[i].user =>
              rate_get(rate_hist[i].after, v) = rate_get(rate_hist[i].before, v)
    /\ \A u \in Users :
          LET own == OwnCalls(u, Len(rate_hist))
          IN  Alone(<<>>, own, 1) = [i \in 1..Len(own) |-> own[i].result]

\* C19 witness: one user is refused and the other, calling at the same
\* time, is allowed
C19_Witness ==
    \E i, j \in 1..Len(rate_hist) :
        /\ i < j
        /\ rate_hist[i].user # rate_hist[j].user
        /\ rate_hist[i].at = rate_hist[j].at
        /\ ~rate_hist[i].result
        /\ rate_hist[j].result

----------------------------------------------------------------------------
(* Claims about the window of RateLimiter, checked under SpecRateWindow *)

\* call i is a call of is_allowed
IsCheck(i) == "result" \in DOMAIN rate_hist[i]

\* the earlier checks of the user of call i that were allowed and whose
\* timestamp is inside the window at call i
InsideWindow(i) ==
    {j \in 1..(i - 1) : /\ IsCheck(j)
                        /\ rate_hist[j].user = rate_hist[i].user
                        /\ rate_hist[j].result
                        /\ rate_hist[j].at > rate_hist[i].at - RateWindow}

----------------------------------------------------------------------------
(* ConversationMemory (src/slack_bot.py) *)

\* _get_key: f"{channel_id}:{thread_ts}"
ConversationMemory_get_key(channel_id, thread_ts) == channel_id \o ":" \o thread_ts

\* A mutant of _trim_messages: the oldest messages are the ones kept.
trim_messages_KeepOldest(messages, max) ==
    IF Len(messages) > max THEN SubSeq(messages, 1, max) ELSE messages

\* _trim_messages: messages[-self._max_messages:] once the list is longer
trim_messages(messages, max) ==
    IF Len(messages) > max
    THEN SubSeq(messages, Len(messages) - max + 1, Len(messages))
    ELSE messages

\* the body shared by add_user_message, add_assistant_message and
\* add_tool_result: create the thread on first use, append, stamp, trim
add_message(convs, key, message, t, max) ==
    LET conv == IF key \in DOMAIN convs THEN convs[key]
                ELSE [messages |-> <<>>, last_updated |-> t]
        entry == [messages |-> trim_messages(Append(conv.messages, message), max),
                  last_updated |-> t]
    IN  [k \in DOMAIN convs \cup {key} |-> IF k = key THEN entry ELSE convs[k]]

\* the message each method appends
add_user_message(content) == [role |-> "user", content |-> Str(<<content>>)]
add_assistant_message(content) == [role |-> "assistant", content |-> Str(<<content>>)]
add_tool_result(content) ==
    [role |-> "user",
     content |-> List(<<Dict([type |-> Str(<<"tool_result">>),
                              content |-> Str(<<content>>)])>>)]

\* conversation_memory = ConversationMemory(ttl_seconds=3600, ...)
MemoryTTL == 3600

\* _cleanup_expired: delete every thread with now - last_updated > ttl
ConversationMemory_cleanup_expired(convs, t) ==
    [k \in {j \in DOMAIN convs : ~(t - convs[j].last_updated > MemoryTTL)} |-> convs[k]]

\* A mutant of get_messages: the thread is read without the sweep.
get_messages_NoSweep(convs, t, channel_id, thread_ts) ==
    LET key == ConversationMemory_get_key(channel_id, thread_ts)
    IN  [result |-> IF key \in DOMAIN convs THEN convs[key].messages ELSE <<>>,
         conversations |-> convs]

\* get_messages: sweep, then self._conversations.get(key, {}).get("messages",
\* []); its result and the dict after the call
get_messages(convs, t, channel_id, thread_ts) ==
    LET swept == ConversationMemory_cleanup_expired(convs, t)
        key == ConversationMemory_get_key(channel_id, thread_ts)
    IN  [result |-> IF key \in DOMAIN swept THEN swept[key].messages ELSE <<>>,
         conversations |-> swept]

\* clear_thread: del self._conversations[key] when the key is there
clear_thread(convs, channel_id, thread_ts) ==
    [k \in DOMAIN convs \ {ConversationMemory_get_key(channel_id, thread_ts)} |->
        convs[k]]

----------------------------------------------------------------------------
(* SpecMemory: appends to the threads of a memory of a small bound *)

MemMaxMessages == 3
MaxAppends == 5
MaxMemCalls == 5

MemThreads == {"1.0", "2.0"}

\* the three methods that append
AddMethods == {"add_user_message", "add_assistant_message", "add_tool_result"}

\* conversation_memory.add_...(channel_id, thread_ts, content); the content
\* is numbered, so that every message of a thread can be told from the others
AddCall(method, channel_id, thread_ts) ==
    LET key == ConversationMemory_get_key(channel_id, thread_ts)
        sofar == IF key \in DOMAIN appended THEN appended[key] ELSE <<>>
        content == ToString(Len(sofar) + 1)
        message == CASE method = "add_user_message"      -> add_user_message(content)
                     [] method = "add_assistant_message" -> add_assistant_message(content)
                     [] OTHER                            -> add_tool_result(content)
    IN  /\ Len(sofar) < MaxAppends
        /\ \A k \in DOMAIN appended : k # key => Len(appended[k]) + Len(sofar) < MaxAppends
        /\ mem_calls < MaxMemCalls
        /\ mem_calls' = mem_calls + 1
        /\ conversations' = add_message(conversations, key, message, now, MemMaxMessages)
        /\ appended' = [k \in DOMAIN appended \cup {key} |->
                          IF k = key THEN Append(sofar, message) ELSE appended[k]]
        /\ touched' = [k \in DOMAIN touched \cup {key} |->
                          IF k = key THEN now ELSE touched[k]]
        /\ UNCHANGED <<now, botVars, concVars, mem_ret, mcp_client, mcp_log, rd,
                       rate_requests, rate_hist>>

\* the instants at which the clock is read: ages below, at and above the TTL
\* of a thread can be formed as differences of two of them
MemInstants == {0, MemoryTTL, MemoryTTL + 1}

\* time.time() moves on between calls
MemTick ==
    /\ DOMAIN conversations # {}
    /\ \E t \in MemInstants : t > now /\ now' = t
    /\ UNCHANGED <<botVars, libVars>>

\* conversation_memory.get_messages(channel_id, thread_ts).  Every thread
\* the sweep of this call finds expired is gone for the calls that follow.
GetMessagesCall(channel_id, thread_ts) ==
    LET key == ConversationMemory_get_key(channel_id, thread_ts)
        got == get_messages(conversations, now, channel_id, thread_ts)
        live == {k \in DOMAIN touched : now - touched[k] <= MemoryTTL}
    IN  /\ mem_calls < MaxMemCalls
        /\ mem_calls' = mem_calls + 1
        /\ conversations' = got.conversations
        /\ mem_ret' = [key |-> key, at |-> now, result |-> got.result,
                       written |-> key \in DOMAIN appended,
                       appended |-> IF key \in DOMAIN appended THEN appended[key]
                                    ELSE <<>>,
                       touched |-> IF key \in DOMAIN touched THEN touched[key] ELSE 0]
        /\ appended' = [k \in DOMAIN appended \cap live |-> appended[k]]
        /\ touched' = [k \in live |-> touched[k]]
        /\ UNCHANGED <<now, botVars, concVars, mcp_client, mcp_log, rd, rate_requests,
                       rate_hist>>

\* conversation_memory.clear_thread(channel_id, thread_ts)
ClearCall(channel_id, thread_ts) ==
    LET key == ConversationMemory_get_key(channel_id, thread_ts)
    IN  /\ key \in DOMAIN appended
        /\ mem_calls < MaxMemCalls
        /\ mem_calls' = mem_calls + 1
        /\ conversations' = clear_thread(conversations, channel_id, thread_ts)
        /\ appended' = [k \in DOMAIN appended \ {key} |-> appended[k]]
        /\ touched' = [k \in DOMAIN touched \ {key} |-> touched[k]]
        /\ UNCHANGED <<now, botVars, concVars, mem_ret, mcp_client, mcp_log, rd,
                       rate_requests, rate_hist>>

NextMemory ==
    \E method \in AddMethods, thread_ts \in MemThreads : AddCall(method, Channel, thread_ts)

SpecMemory == Init /\ [][NextMemory]_vars

\* appends, reads and clears of the threads, with the clock moving on
NextMemoryTTL ==
    \/ \E method \in {"add_user_message", "add_assistant_message"},
          thread_ts \in MemThreads : AddCall(method, Channel, thread_ts)
    \/ MemTick
    \/ \E thread_ts \in MemThreads : GetMessagesCall(Channel, thread_ts)
    \/ \E thread_ts \in MemThreads : ClearCall(Channel, thread_ts)

SpecMemoryTTL == Init /\ [][NextMemoryTTL]_vars

----------------------------------------------------------------------------
(* SpecMemoryConc: the memory of one thread used from two listener threads
   at once.  No method takes a lock; the statements of a method are its
   steps, each reading the dict as it is when the step runs. *)

MemConcMax == 2
MaxMemConcCalls == 4

\* the thread the concurrent turns are on
MemConcKey == ConversationMemory_get_key(Channel, "1.0")

memConcRest == <<storeVars, flowVars, pending_actions, mcp_client, mcp_log, rd,
                 rate_requests, rate_hist, appended, memAux, store_ctx, rate_ctx, turn>>

\* the calls begun so far
MemConcCalls ==
    Len(mem_ctx.hist) + Cardinality({c \in StoreCtxs : mem_ctx.run[c].pc # "idle"})

\* the call of context c ends: it returns (raised = "no", with the list it
\* returns, if any) or an exception leaves it
MemEnd(ctx, c, result, raised) ==
    [ctx EXCEPT !.run[c] = [pc |-> "idle"],
                !.hist = Append(ctx.hist, [ctx |-> c, op |-> ctx.run[c].op,
                                           result |-> result, raised |-> raised])]

\* a call is entered.  The contexts are interchangeable: c2 begins a call
\* only while c1 is in one.  The content of the message added is numbered.
MemBegin(c, op) ==
    /\ mem_ctx.run[c].pc = "idle"
    /\ MemConcCalls < MaxMemConcCalls
    /\ c = "c2" => mem_ctx.run["c1"].pc # "idle"
    /\ mem_ctx' =
          IF op = "add_user_message"
          THEN [mem_ctx EXCEPT !.run[c] = [pc |-> "check", op |-> op,
                                           content |-> ToString(mem_ctx.adds + 1)],
                               !.adds = mem_ctx.adds + 1]
          ELSE IF op = "get_messages"
          THEN [mem_ctx EXCEPT !.run[c] = [pc |-> "iter", op |-> op]]
          ELSE [mem_ctx EXCEPT !.run[c] = [pc |-> "check", op |-> op]]
    /\ UNCHANGED <<now, conversations, memConcRest>>

\* add_user_message: if key not in self._conversations
\* clear_thread: if key in self._conversations
MemCheck(c) ==
    LET call == mem_ctx.run[c]
    IN  /\ call.pc = "check"
        /\ mem_ctx' =
              IF call.op = "add_user_message"
              THEN [mem_ctx EXCEPT !.run[c].pc =
                       IF MemConcKey \in DOMAIN conversations THEN "append" ELSE "create"]
              ELSE IF MemConcKey \in DOMAIN conversations
              THEN [mem_ctx EXCEPT !.run[c].pc = "del"]
              ELSE MemEnd(mem_ctx, c, <<>>, "no")
        /\ UNCHANGED <<now, conversations, memConcRest>>

\* self._conversations[key] = {"messages": [], "last_updated": time.time()}
MemCreate(c) ==
    /\ mem_ctx.run[c].pc = "create"
    /\ conversations' = (MemConcKey :> [messages |-> <<>>, last_updated |-> now])
    /\ mem_ctx' = [mem_ctx EXCEPT !.run[c].pc = "append"]
    /\ UNCHANGED <<now, memConcRest>>

\* self._conversations[key]["messages"].append({...}); KeyError when the
\* thread was deleted meanwhile
MemAppend(c) ==
    LET call == mem_ctx.run[c]
    IN  /\ call.pc = "append"
        /\ IF MemConcKey \in DOMAIN conversations
           THEN /\ conversations' =
                      [conversations EXCEPT ![MemConcKey].messages =
                          Append(@, add_user_message(call.content))]
                /\ mem_ctx' = [mem_ctx EXCEPT !.run[c].pc = "stamp",
                                              !.order = Append(@, call.content)]
           ELSE /\ conversations' = conversations
                /\ mem_ctx' = MemEnd(mem_ctx, c, <<>>, "KeyError")
        /\ UNCHANGED <<now, memConcRest>>

\* self._conversations[key]["last_updated"] = time.time()
MemStamp(c) ==
    /\ mem_ctx.run[c].pc = "stamp"
    /\ IF MemConcKey \in DOMAIN conversations
       THEN /\ conversations' = [conversations EXCEPT ![MemConcKey].last_updated = now]
            /\ mem_ctx' = [mem_ctx EXCEPT !.run[c].pc = "trim"]
       ELSE /\ conversations' = conversations
            /\ mem_ctx' = MemEnd(mem_ctx, c, <<>>, "KeyError")
    /\ UNCHANGED <<now, memConcRest>>

\* _trim_messages: messages = self._conversations[key]["messages"]; when it
\* is longer than max_messages the slice messages[-max_messages:] is built
MemTrim(c) ==
    LET call == mem_ctx.run[c]
    IN  /\ call.pc = "trim"
        /\ mem_ctx' =
              IF MemConcKey \notin DOMAIN conversations
              THEN MemEnd(mem_ctx, c, <<>>, "KeyError")
              ELSE IF Len(conversations[MemConcKey].messages) > MemConcMax
              THEN [mem_ctx EXCEPT !.run[c] =
                       [pc |-> "trimset", op |-> call.op, content |-> call.content,
                        slice |-> trim_messages(conversations[MemConcKey].messages,
                                                MemConcMax)]]
              ELSE MemEnd(mem_ctx, c, <<>>, "no")
        /\ UNCHANGED <<now, conversations, memConcRest>>

\* self._conversations[key]["messages"] = <the slice built>
MemTrimSet(c) ==
    LET call == mem_ctx.run[c]
    IN  /\ call.pc = "trimset"
        /\ IF MemConcKey \in DOMAIN conversations
           THEN /\ conversations' =
                      [conversations EXCEPT ![MemConcKey].messages = call.slice]
                /\ mem_ctx' = MemEnd(mem_ctx, c, <<>>, "no")
           ELSE /\ conversations' = conversations
                /\ mem_ctx' = MemEnd(mem_ctx, c, <<>>, "KeyError")
        /\ UNCHANGED <<now, memConcRest>>

\* clear_thread and _cleanup_expired: del self._conversations[key]; after
\* the delete of the sweep, get_messages goes on to read the thread
MemDel(c) ==
    LET call == mem_ctx.run[c]
    IN  /\ call.pc = "del"
        /\ IF MemConcKey \in DOMAIN conversations
           THEN /\ conversations' = <<>>
                /\ mem_ctx' = IF call.op = "get_messages"
                              THEN [mem_ctx EXCEPT !.run[c].pc = "get",
                                                   !.cleared = TRUE]
                              ELSE [MemEnd(mem_ctx, c, <<>>, "no") EXCEPT
                                       !.cleared = TRUE]
           ELSE /\ conversations' = conversations
                /\ mem_ctx' = MemEnd(mem_ctx, c, <<>>, "KeyError")
        /\ UNCHANGED <<now, memConcRest>>

\* _cleanup_expired: now = time.time(); the iteration over
\* self._conversations.items() starts
MemIter(c) ==
    /\ mem_ctx.run[c].pc = "iter"
    /\ mem_ctx' = [mem_ctx EXCEPT !.run[c] =
           [pc |-> "scan", op |-> "get_messages", at |-> now,
            size |-> Cardinality(DOMAIN conversations)]]
    /\ UNCHANGED <<now, conversations, memConcRest>>

\* the iteration ends: RuntimeError when the dict changed size during it,
\* else the expired keys are known
MemScan(c) ==
    LET call == mem_ctx.run[c]
        expired == {k \in DOMAIN conversations :
                      call.at - conversations[k].last_updated > MemoryTTL}
    IN  /\ call.pc = "scan"
        /\ mem_ctx' =
              IF Cardinality(DOMAIN conversations) # call.size
              THEN MemEnd(mem_ctx, c, <<>>, "RuntimeError")
              ELSE [mem_ctx EXCEPT !.run[c].pc =
                       IF expired = {} THEN "get" ELSE "del"]
        /\ UNCHANGED <<now, conversations, memConcRest>>

\* conv = self._conversations.get(key, {}); return conv.get("messages", [])
MemGet(c) ==
    /\ mem_ctx.run[c].pc = "get"
    /\ mem_ctx' = MemEnd(mem_ctx, c,
                         IF MemConcKey \in DOMAIN conversations
                         THEN conversations[MemConcKey].messages ELSE <<>>, "no")
    /\ UNCHANGED <<now, conversations, memConcRest>>

\* time.time() moves on past the TTL of the thread
MemConcTick ==
    /\ now = 0
    /\ MemConcKey \in DOMAIN conversations
    /\ now' = MemoryTTL + 1
    /\ UNCHANGED <<conversations, mem_ctx, memConcRest>>

NextMemoryConc ==
    \/ MemConcTick
    \/ \E c \in StoreCtxs, op \in {"add_user_message", "get_messages", "clear_thread"} :
          MemBegin(c, op)
    \/ \E c \in StoreCtxs : MemCheck(c)
    \/ \E c \in StoreCtxs : MemCreate(c)
    \/ \E c \in StoreCtxs : MemAppend(c)
    \/ \E c \in StoreCtxs : MemStamp(c)
    \/ \E c \in StoreCtxs : MemTrim(c)
    \/ \E c \in StoreCtxs : MemTrimSet(c)
    \/ \E c \in StoreCtxs : MemDel(c)
    \/ \E c \in StoreCtxs : MemIter(c)
    \/ \E c \in StoreCtxs : MemScan(c)
    \/ \E c \in StoreCtxs : MemGet(c)

SpecMemoryConc == Init /\ [][NextMemoryConc]_vars

----------------------------------------------------------------------------
(* handle_mention as a whole, with the limiter, the memory and the store
   (src/slack_bot.py) *)

\* str.split(","): the text between the commas, from position i on, with
\* cur the item begun.  A text is a sequence of tokens: channel ids, commas,
\* blanks.
RECURSIVE split_from(_, _, _)
split_from(s, i, cur) ==
    IF i > Len(s) THEN <<cur>>
    ELSE IF s[i] = "," THEN <<cur>> \o split_from(s, i + 1, <<>>)
    ELSE split_from(s, i + 1, Append(cur, s[i]))

\* ALLOWED_CHANNELS = os.environ.get("ALLOWED_CHANNELS", "").split(",")
split(s) == split_from(s, 1, <<>>)

\* if ALLOWED_CHANNELS and ALLOWED_CHANNELS[0]:
\*     if channel_id not in ALLOWED_CHANNELS: ... return
channel_refused(allowed, channel_id) ==
    /\ allowed # <<>>
    /\ allowed[1] # <<>>
    /\ \A i \in 1..Len(allowed) : allowed[i] # <<channel_id>>

\* A mutant of the order of the checks: the clear command is served before
\* the rate check.
turn_branch_ClearFirst(refused, allowed, clean_text) ==
    IF refused THEN "channel"
    ELSE IF clean_text = "clear" THEN "clear"
    ELSE IF ~allowed THEN "rate"
    ELSE IF clean_text = "" THEN "empty"
    ELSE "process"

\* the early returns of handle_mention, in their order: the channel, the
\* rate limit, the clear command, the empty text
turn_branch(refused, allowed, clean_text) ==
    IF refused THEN "channel"
    ELSE IF ~allowed THEN "rate"
    ELSE IF clean_text = "clear" THEN "clear"
    ELSE IF clean_text = "" THEN "empty"
    ELSE "process"

\* the rounds of tool uses of a script, one after the other
RECURSIVE tool_uses(_, _)
tool_uses(rounds, k) ==
    IF k = 0 THEN <<>> ELSE tool_uses(rounds, k - 1) \o rounds[k]

\* the results of the tool uses that require a confirmation, in order; the
\* input of each use is numbered
RECURSIVE pending_results(_, _)
pending_results(uses, k) ==
    IF k = 0 THEN <<>>
    ELSE LET res == execute_tool(uses[k], ToString(k), TRUE).result
         IN  IF confirmation_check(res) = "pending"
             THEN Append(pending_results(uses, k - 1), res.value)
             ELSE pending_results(uses, k - 1)

\* A mutant of the tracking of pending_action_data: the first result that
\* requires a confirmation is kept.
last_pending_First(results) == IF results = <<>> THEN None ELSE results[1]

\* pending_action_data = result_data, assigned at every result that requires
\* a confirmation: the last one stays
last_pending(results) == IF results = <<>> THEN None ELSE results[Len(results)]

\* the messages of turn n: the user's, the assistant's request of round i,
\* the tool results of round i, the assistant's final one
turn_user(n) == add_user_message("u" \o ToString(n))
turn_request(n, i) == add_assistant_message("a" \o ToString(n) \o "." \o ToString(i))
turn_results(n, i) == add_tool_result("t" \o ToString(n) \o "." \o ToString(i))
turn_final(n) == add_assistant_message("f" \o ToString(n))

\* messages.append(assistant); messages.append(tool results), for k rounds
RECURSIVE round_messages(_, _)
round_messages(n, k) ==
    IF k = 0 THEN <<>>
    ELSE round_messages(n, k - 1) \o <<turn_request(n, k), turn_results(n, k)>>

\* A mutant of the slice: every message of the local list is added again.
turn_tail_All(messages, saved) == messages

\* messages[len(conversation_memory.get_messages(channel_id, thread_ts)):]
turn_tail(messages, saved) == SubSeq(messages, Len(saved) + 1, Len(messages))

\* the loop over the slice: assistant messages and tool results are added,
\* a user message whose content is no list is passed over
RECURSIVE add_tail(_, _, _, _, _, _)
add_tail(convs, key, tail, i, t, max) ==
    IF i > Len(tail) THEN convs
    ELSE LET msg == tail[i]
             added == IF msg.role = "assistant" \/ msg.content.t = "list"
                      THEN add_message(convs, key, msg, t, max)
                      ELSE convs
         IN  add_tail(added, key, tail, i + 1, t, max)

\* A mutant of the abort: the turn's messages are recorded although a call
\* raised.
turn_memory_Always(raised, swept, saved) == saved

\* the memory after process_message_with_claude: the messages are added
\* after the last LLM call only, so a raise leaves what get_messages left
turn_memory(raised, swept, saved) == IF raised THEN swept ELSE saved

\* process_message_with_claude for turn n at time t.  script.rounds are the
\* tool uses the LLM asks for, round by round; script.fail is the number of
\* the claude.messages.create call that raises, 0 for none.
process_message_with_claude(convs, t, channel_id, thread_ts, n, script, max) ==
    LET key     == ConversationMemory_get_key(channel_id, thread_ts)
        got     == get_messages(convs, t, channel_id, thread_ts)
        done    == IF script.fail = 0 THEN Len(script.rounds) ELSE script.fail - 1
        uses    == tool_uses(script.rounds, done)
        local   == got.result \o <<turn_user(n)>> \o round_messages(n, done)
        first   == add_message(got.conversations, key, turn_user(n), t, max)
        again   == get_messages(first, t, channel_id, thread_ts)
        tail    == turn_tail(local, again.result)
        looped  == add_tail(again.conversations, key, tail, 1, t, max)
        saved   == add_message(looped, key, turn_final(n), t, max)
    IN  [raised |-> script.fail # 0,
         llm_calls |-> IF script.fail = 0 THEN Len(script.rounds) + 1 ELSE script.fail,
         tools_run |-> uses,
         requested |-> pending_results(uses, Len(uses)),
         pending |-> last_pending(pending_results(uses, Len(uses))),
         swept |-> got.conversations,
         local |-> local,
         conversations |-> turn_memory(script.fail # 0, got.conversations, saved)]

----------------------------------------------------------------------------
(* SpecTurn: mentions handled one after the other *)

MaxTurns == 2
MaxRounds == 2
MaxUses == 1
TurnMaxMessages == 5
TurnRateCap == 1

\* values of ALLOWED_CHANNELS: unset, one channel, a list that begins with
\* a comma
AllowedEnvs == {<<>>, <<"C1">>, <<",", "C1">>}
TurnChannels == {"C1", "C2"}
TurnThread == "1.0"

\* clean_text, as far as the handler tells texts apart
TurnTexts == {"clear", "", "ask"}

\* the tools the LLM asks for: one that requires a confirmation and a read
TurnTools == {"add_candidate_note", "get_pipeline_overview"}

\* sequences over S of the lengths lo..hi
SeqsOf(S, lo, hi) == UNION {[1..k -> S] : k \in lo..hi}

Scripts ==
    {s \in [rounds : SeqsOf(SeqsOf(TurnTools, 1, MaxUses), 0, MaxRounds),
            fail : 0..(MaxRounds + 1)] : s.fail <= Len(s.rounds) + 1}

\* the script of a mention that does not reach the LLM
NoScript == [rounds |-> <<>>, fail |-> 0]

\* time.time() moves on between mentions: within the window of the
\* limiter, past it, past the TTL of a thread
TurnInstants == {RateWindow + 1, MemoryTTL + 1}

TurnTick ==
    /\ turn # None
    /\ \E t \in TurnInstants : t > now /\ now' = t
    /\ UNCHANGED <<botVars, libVars>>

\* handle_mention(event, say, client), start to end.  env is the value of
\* ALLOWED_CHANNELS, read once when the bot starts; post_ok is FALSE when
\* chat_postMessage raises.  The reply of turn n has ts n.
HandleMention(env, channel_id, user_id, clean_text, script, post_ok) ==
    LET n       == IF turn = None THEN 1 ELSE turn.n + 1
        refused == channel_refused(split(env), channel_id)
    IN  /\ turn # None => (turn.n < MaxTurns /\ env = turn.env)
        /\ turn = None => user_id = "UA"
        /\ \E rate \in {is_allowed(rate_requests, user_id, now, TurnRateCap, RateWindow)},
              proc \in {process_message_with_claude(conversations, now, channel_id,
                                                    TurnThread, n, script,
                                                    TurnMaxMessages)} :
              LET branch == turn_branch(refused, rate.result, clean_text)
                  stores == /\ branch = "process" /\ ~proc.raised
                            /\ post_ok /\ proc.pending # None
              IN  /\ branch # "process" => (script = NoScript /\ post_ok)
                  /\ proc.raised => post_ok
                  /\ rate_requests' = IF refused THEN rate_requests ELSE rate.requests
                  /\ conversations' =
                        IF branch = "clear"
                        THEN clear_thread(conversations, channel_id, TurnThread)
                        ELSE IF branch = "process" THEN proc.conversations
                        ELSE conversations
                  /\ pending_actions' =
                        IF stores
                        THEN PendingActionsStore_store(pending_actions, now, Ts(n),
                                                       channel_id, proc.pending, user_id)
                        ELSE pending_actions
                  /\ turn' =
                        [n |-> n, env |-> env, channel_id |-> channel_id,
                         user_id |-> user_id, clean_text |-> clean_text, at |-> now,
                         branch |-> branch,
                         outcome |-> IF branch # "process" THEN branch
                                     ELSE IF proc.raised \/ ~post_ok THEN "error"
                                     ELSE "replied",
                         raised |-> branch = "process" /\ proc.raised,
                         llm_calls |-> IF branch = "process" THEN proc.llm_calls ELSE 0,
                         tools_run |-> IF branch = "process" THEN Len(proc.tools_run) ELSE 0,
                         requested |-> IF branch = "process" THEN proc.requested ELSE <<>>,
                         rounds |-> Len(script.rounds),
                         stores |-> stores,
                         before |-> [conversations |-> conversations,
                                     pending_actions |-> pending_actions,
                                     rate_requests |-> rate_requests]]
        /\ UNCHANGED <<now, storeVars, flowVars, mcp_client, mcp_log, rd, rate_hist,
                       appended, memAux, store_ctx, rate_ctx, mem_ctx>>

\* the mentions that return early, and those that reach the LLM
NextTurn ==
    \/ TurnTick
    \/ /\ turn # None => turn.n < MaxTurns
       /\ \E env \in IF turn = None THEN AllowedEnvs ELSE {turn.env},
             channel_id \in TurnChannels, user_id \in Users, clean_text \in TurnTexts :
             HandleMention(env, channel_id, user_id, clean_text, NoScript, TRUE)
    \/ /\ turn # None => turn.n < MaxTurns
       /\ \E env \in IF turn = None THEN AllowedEnvs ELSE {turn.env},
             channel_id \in TurnChannels, user_id \in Users,
             script \in Scripts, post_ok \in BOOLEAN :
             HandleMention(env, channel_id, user_id, "ask", script, post_ok)

SpecTurn == Init /\ [][NextTurn]_vars

----------------------------------------------------------------------------
(* Claims about ConversationMemory, checked under SpecMemory *)

\* five add_user_message calls on one key of a memory of max_messages = 4
RECURSIVE ScenarioE(_, _)
ScenarioE(convs, n) ==
    IF n > 5 THEN convs
    ELSE ScenarioE(add_message(convs, "C1:1.0", add_user_message(ToString(n)), 0, 4),
                   n + 1)

\* C20: after any sequence of appends, a thread holds at most max_messages
\* messages, and they are the last ones appended to it, in the order of
\* their appends; with max_messages 4, five appends leave messages 2 to 5.
C20_BoundedMostRecent ==
    /\ DOMAIN conversations = DOMAIN appended
    /\ \A key \in DOMAIN conversations :
          LET messages == conversations[key].messages
              all == appended[key]
          IN  /\ Len(messages) <= MemMaxMessages
              /\ Len(messages) = IF Len(all) < MemMaxMessages THEN Len(all)
                                 ELSE MemMaxMessages
              /\ messages = SubSeq(all, Len(all) - Len(messages) + 1, Len(all))
    /\ conversations # <<>> =>
          ScenarioE(<<>>, 1)["C1:1.0"].messages
             = [i \in 1..4 |-> add_user_message(ToString(i + 1))]

\* C20 witness: a thread that got more than max_messages appends, of all
\* three kinds, and lost its oldest ones
C20_Witness ==
    \E key \in DOMAIN conversations :
        /\ Len(appended[key]) = MemMaxMessages + 2
        /\ Len(conversations[key].messages) = MemMaxMessages
        /\ conversations[key].messages[1] = appended[key][3]
        /\ \E i, j \in 1..MemMaxMessages :
              /\ conversations[key].messages[i].role = "assistant"
              /\ conversations[key].messages[j].content.t = "list"

\* C21: get_messages returns the empty sequence for a key that was never
\* written, was cleared, or was last appended to more than TTL seconds
\* before the call; otherwise it returns the messages the thread holds, in
\* the order of their appends.
C21_GetMessages ==
    mem_ret # None =>
        IF ~mem_ret.written \/ mem_ret.at - mem_ret.touched > MemoryTTL
        THEN mem_ret.result = <<>>
        ELSE LET all == mem_ret.appended
                 n == IF Len(all) < MemMaxMessages THEN Len(all) ELSE MemMaxMessages
             IN  mem_ret.result = SubSeq(all, Len(all) - n + 1, Len(all))

\* C21 witness: a thread written at 0 is read as empty at TTL + 1
C21_Witness ==
    /\ mem_ret # None
    /\ mem_ret.written
    /\ mem_ret.touched = 0
    /\ mem_ret.at = MemoryTTL + 1
    /\ mem_ret.result = <<>>

\* C21 witness of the other half: a thread exactly TTL seconds old is
\* returned, with its messages in append order
C21_WitnessAtTTL ==
    /\ mem_ret # None
    /\ mem_ret.written
    /\ mem_ret.at - mem_ret.touched = MemoryTTL
    /\ Len(mem_ret.result) = 2
    /\ mem_ret.result = mem_ret.appended

\* C31: once the last update of a thread is older than the TTL, the next
\* access to its key of any kind observes it as destroyed: a step that
\* accesses an expired thread either deletes it or leaves it with the one
\* message just appended, so that no message stored before the expiry can
\* be returned by a later get_messages.
C31_ExpiredThreadDestroyed ==
    [][\A k \in DOMAIN conversations :
          (/\ now - conversations[k].last_updated > MemoryTTL
           /\ now' = now
           /\ k \in DOMAIN conversations'
           /\ conversations'[k] # conversations[k])
          => Len(conversations'[k].messages) = 1]_vars

----------------------------------------------------------------------------
(* Claims about failures and acknowledgements, checked under Spec *)

\* the tokens of ErrorTexts and ServerErrors that are credentials
Secrets == {AnthropicPrefix, SlackPrefix, "abc123"}

\* C22: no exception of an external call leaves a handler, every error
\* reply of handle_mention carries the text sanitize_error made of the
\* exception, and so does every error reply of call_tool.
C22_FailuresCaughtAndScrubbed ==
    /\ escaped = {}
    /\ \A n \in 1..Len(outbox) :
          outbox[n].text = "error" => Range(outbox[n].detail) \cap Secrets = {}
    /\ \A i \in 1..Len(mcp_log) :
          mcp_log[i].error # None =>
              mcp_log[i].text = <<Str(<<"Error: ">> \o sanitize_error(mcp_log[i].error.str))>>

\* the part of C22 about call_tool, for SpecServer
C22_ServerErrorsScrubbed ==
    \A i \in 1..Len(mcp_log) :
        mcp_log[i].error # None =>
            mcp_log[i].text = <<Str(<<"Error: ">> \o sanitize_error(mcp_log[i].error.str))>>

\* C23: the step in which handle_reaction looks the coordinate up has the
\* same visible effect when the store holds nothing there and when it
\* holds the action of another identity: the handler returns, no reply is
\* posted, no request is made and nothing is executed.
C23_NonOwnerIndistinguishable ==
    [][\A p \in Threads :
          LET pending == PendingActionsStore_get(pending_actions, now, Channel,
                                                 r[p].ts)[1]
          IN  (/\ Steps(p)
               /\ r[p].pc = "get"
               /\ \/ pending = None
                  \/ pending.user_id # r[p].user)
              => /\ NoEffect
                 /\ escaped' = escaped
                 /\ r'[p].pc = "done"
                 /\ [q \in Threads \ {p} |-> r'[q]] = [q \in Threads \ {p} |-> r[q]]]_vars

\* C23 witness: one handler returned on a coordinate without an action and
\* the other on a foreign action, and the only message is the bot's reply
C23_Witness ==
    /\ r["t1"].pc = "done" /\ r["t1"].outcome = "not_owner" /\ r["t1"].seen = "live"
    /\ r["t2"].pc = "done" /\ r["t2"].outcome = "no_pending" /\ r["t2"].seen = "unstored"
    /\ Len(outbox) = 1
    /\ ats = <<>>
    /\ execLog = <<>>

C27_ReadOnlyNoMutation ==
    \A i \in 1..Len(execLog) :
        execLog[i].access_level = READ_ONLY => execLog[i].calls = <<>>

\* the part of C27 about call_tool, checked under SpecServer: at READ_ONLY
\* no invocation, of whatever tool name, sends a mutating request
C27_ServerReadOnly ==
    \A i \in 1..Len(mcp_log) :
        mcp_log[i].access_level = READ_ONLY =>
            /\ MutatingEndpoints \cap {mcp_log[i].before_check[j] :
                                          j \in 1..Len(mcp_log[i].before_check)} = {}
            /\ MutatingEndpoints \cap {mcp_log[i].after_check[j] :
                                          j \in 1..Len(mcp_log[i].after_check)} = {}

\* the reply ts carries a pending action owned by user: handle_mention has
\* posted it and is about to store the action, or has stored it
CarriesPending(ts, user) ==
    \/ (m.pc = "store" /\ m.ts = ts /\ store_owner(m.user) = user)
    \/ (Key(Channel, ts) \in DOMAIN stored /\ stored[Key(Channel, ts)].user_id = user)

\* C28: a white_check_mark of the owner on a reply that carries a pending
\* action, delivered after the reply was posted and within the TTL, is
\* never dropped: its handler executes the action, unless another handler
\* had taken the entry before; this also when the handler runs between
\* the posting of the reply and the store of the action.
C28_OwnerAckExecutes ==
    \A p \in Threads :
        (/\ r[p].pc = "done"
         /\ is_confirm(r[p].reaction)
         /\ CarriesPending(r[p].ts, r[p].user)
         /\ r[p].seen # "late")
        => (r[p].outcome = "executed" \/ r[p].seen = "removed")

----------------------------------------------------------------------------
(* Claims about the limiter under concurrent use, checked under SpecRateConc *)

\* the completed calls of the user of call i that were allowed within the
\* window ending at call i, call i included
AllowedInWindow(i) ==
    {j \in 1..Len(rate_ctx.hist) :
        /\ rate_ctx.hist[j].user = rate_ctx.hist[i].user
        /\ rate_ctx.hist[j].result
        /\ rate_ctx.hist[j].at <= rate_ctx.hist[i].at
        /\ rate_ctx.hist[j].at > rate_ctx.hist[i].at - RateWindow}

\* at most cap calls of one identity return true within any trailing window
CapHoldsConcurrently ==
    \A i \in 1..Len(rate_ctx.hist) :
        rate_ctx.hist[i].result => Cardinality(AllowedInWindow(i)) <= RateCap

\* the timestamp of every allowed call that is still within the window is
\* in the window of its identity, once for each such call
NoTimestampLost ==
    \A i \in 1..Len(rate_ctx.hist) :
        LET e == rate_ctx.hist[i]
        IN  (e.result /\ e.at > now - RateWindow) =>
               Occurrences(rate_get(rate_requests, rate_key(e.user)), e.at)
                  >= Cardinality({j \in 1..Len(rate_ctx.hist) :
                                     /\ rate_ctx.hist[j].user = e.user
                                     /\ rate_ctx.hist[j].result
                                     /\ rate_ctx.hist[j].at = e.at})

\* C29: the rate cap holds under concurrency: for any interleaving of
\* concurrent is_allowed calls of one identity, at most cap calls return
\* true within any trailing window and no allowed call's timestamp is lost
\* from the window.
C29_CapUnderConcurrency == CapHoldsConcurrently /\ NoTimestampLost

----------------------------------------------------------------------------
(* Claims about the memory under concurrent use, checked under SpecMemoryConc *)

\* get_messages never returns more than max_messages entries
ReaderSeesBound ==
    \A i \in 1..Len(mem_ctx.hist) :
        mem_ctx.hist[i].op = "get_messages" =>
            Len(mem_ctx.hist[i].result) <= MemConcMax

\* no call raises
NoMemoryCallRaised ==
    \A i \in 1..Len(mem_ctx.hist) : mem_ctx.hist[i].raised = "no"

\* the last max_messages of a sequence
LastOf(seq, max) ==
    IF Len(seq) > max THEN SubSeq(seq, Len(seq) - max + 1, Len(seq)) ELSE seq

\* once every call has returned and while the thread was never deleted, it
\* holds the messages appended, in the order of their appends, less those
\* evicted from the front
NoAppendLost ==
    (/\ \A c \in StoreCtxs : mem_ctx.run[c].pc = "idle"
     /\ ~mem_ctx.cleared
     /\ mem_ctx.order # <<>>)
    => /\ MemConcKey \in DOMAIN conversations
       /\ conversations[MemConcKey].messages =
             LastOf([i \in 1..Len(mem_ctx.order) |-> add_user_message(mem_ctx.order[i])],
                    MemConcMax)

\* C30: under concurrent turns on one thread the conversation bound and
\* order hold in every state a reader can observe: get_messages never
\* returns more than max_messages entries, no call raises, and no appended
\* message is lost other than by eviction from the front.
C30_BoundUnderConcurrency == ReaderSeesBound /\ NoMemoryCallRaised /\ NoAppendLost

----------------------------------------------------------------------------
(* Claims about the store under concurrent use, checked under SpecStoreConc *)

\* the orders in which n calls can be lined up
Perms(n) == {f \in [1..n -> 1..n] : \A i, j \in 1..n : f[i] = f[j] => i = j}

\* a call that returned before another began comes first
RealTime(f) ==
    \A a, b \in DOMAIN f :
        a < b => ~(store_ctx.hist[f[b]].ended < store_ctx.hist[f[a]].begun)

\* the completed calls, made one after the other in the order f from the
\* k-th on, return what they returned and leave the store as it is now
RECURSIVE SeqRun(_, _, _)
SeqRun(f, k, actions) ==
    IF k > Len(store_ctx.hist) THEN actions = pending_actions
    ELSE LET h == store_ctx.hist[f[k]]
         IN  CASE h.op = "store" ->
                    SeqRun(f, k + 1,
                           PendingActionsStore_store(actions, h.at, h.message_ts,
                                                     h.channel_id, h.action_data,
                                                     h.user_id))
               [] h.op = "get" ->
                    LET got == PendingActionsStore_get(actions, h.at, h.channel_id,
                                                       h.message_ts)
                    IN  got[1] = h.result /\ SeqRun(f, k + 1, got[2])
               [] OTHER ->
                    LET got == PendingActionsStore_remove(actions, h.at, h.channel_id,
                                                          h.message_ts)
                    IN  got[1] = h.result /\ SeqRun(f, k + 1, got[2])

\* the results of the completed calls and the store are those of the calls
\* made one at a time in some order
Linearizable ==
    (\A c \in StoreCtxs : store_ctx.run[c].pc = "idle") =>
        \E f \in Perms(Len(store_ctx.hist)) : RealTime(f) /\ SeqRun(f, 1, <<>>)

\* no call has raised
NoStoreCallRaised == \A c \in StoreCtxs : store_ctx.run[c].pc # "raised"

\* C24: under every interleaving of store, get and remove calls of two
\* contexts, sweeps included, no call raises, and the results of the calls
\* and the final store are those of the same calls made in some sequential
\* order.
C24_ConcurrentStoreSafe == NoStoreCallRaised /\ Linearizable

----------------------------------------------------------------------------
(* Claims about handle_mention, checked under SpecTurn *)

\* the thread of the last mention
TurnKey == ConversationMemory_get_key(turn.channel_id, TurnThread)

\* the memory the last mention found, after the sweep of its get_messages
TurnSwept == ConversationMemory_cleanup_expired(turn.before.conversations, turn.at)

\* the history of the thread the last mention found, after that sweep
TurnHistory == IF TurnKey \in DOMAIN TurnSwept THEN TurnSwept[TurnKey].messages ELSE <<>>

\* the messages of the last mention's turn, in their order
TurnMessages ==
    <<turn_user(turn.n)>> \o round_messages(turn.n, turn.rounds) \o <<turn_final(turn.n)>>

\* the last mention left the memory and the store as it found them
TurnLeftMemoryAndStore ==
    /\ conversations = turn.before.conversations
    /\ pending_actions = turn.before.pending_actions

\* is_allowed refuses the user of the last mention, at the time of the
\* mention and with the requests the limiter held then
TurnOverLimit ==
    ~is_allowed(turn.before.rate_requests, turn.user_id, turn.at,
                TurnRateCap, RateWindow).result

\* C33: a mention of a user whom is_allowed refuses makes no LLM call, runs
\* no tool and leaves ConversationMemory and PendingActionsStore as they
\* were, a clear command included.
C33_RateCheckFirst ==
    (turn # None /\ TurnOverLimit) =>
        /\ turn.llm_calls = 0
        /\ turn.tools_run = 0
        /\ TurnLeftMemoryAndStore

\* a clear command on a thread with a history was refused by the limiter
C33_Witness ==
    /\ turn # None
    /\ TurnOverLimit
    /\ turn.outcome = "rate"
    /\ turn.clean_text = "clear"
    /\ TurnKey \in DOMAIN conversations
    /\ conversations[TurnKey].messages # <<>>

\* the allow-list names a channel, and not the channel of the last mention
OutsideAllowList ==
    LET allowed == split(turn.env)
    IN  /\ \E i \in 1..Len(allowed) : allowed[i] # <<>>
        /\ \A i \in 1..Len(allowed) : allowed[i] # <<turn.channel_id>>

\* C34: when the allow-list holds at least one non-blank channel id, a
\* mention from a channel outside the list makes no LLM call, runs no tool,
\* takes no rate-limit slot and changes neither the memory nor the store.
C34_OutsideListInvokesNothing ==
    (turn # None /\ OutsideAllowList) =>
        /\ turn.llm_calls = 0
        /\ turn.tools_run = 0
        /\ rate_requests = turn.before.rate_requests
        /\ TurnLeftMemoryAndStore

TurnStored == DOMAIN pending_actions \ DOMAIN turn.before.pending_actions

\* C36: a turn registers at most one PendingAction: of the results that
\* require a confirmation the last one is stored, at the coordinate of the
\* reply, and none of the earlier ones is in the store.
C36_LastPendingOnly ==
    turn # None =>
        IF turn.stores
        THEN /\ TurnStored = {Key(turn.channel_id, Ts(turn.n))}
             /\ pending_actions[Key(turn.channel_id, Ts(turn.n))].action =
                   turn.requested[Len(turn.requested)]
        ELSE TurnStored = {}

\* a turn with two results that require a confirmation has stored one
C36_Witness ==
    /\ turn # None
    /\ turn.stores
    /\ Len(turn.requested) >= 2
    /\ turn.requested[1] # turn.requested[2]

\* C38: when an LLM call raises during a turn, the memory is what the turn
\* found, less the threads its expiry sweep deleted.
C38_RaiseLeavesHistory ==
    (turn # None /\ turn.raised) => conversations = TurnSwept

\* an LLM call raised after a tool round, on a thread with a history
C38_Witness ==
    /\ turn # None
    /\ turn.raised
    /\ turn.llm_calls >= 2
    /\ TurnHistory # <<>>

----------------------------------------------------------------------------
(* Claims about a failed execution, checked under Spec *)

\* execution i failed: the ATS refused the request or the request raised,
\* or the call could not be made and the text reports a failure
FailedExec(i) == execLog[i].response # "ok" \/ execLog[i].text # "success"

\* C37: the owner's white_check_mark consumes the PendingAction whether or
\* not the external call succeeds: after a failed execution the entry is
\* absent from the store and no later acknowledgement executes it again.
C37_ConsumedDespiteFailure ==
    \A i \in 1..Len(execLog) :
        FailedExec(i) =>
            /\ execLog[i].key \notin DOMAIN pending_actions
            /\ \A j \in 1..Len(execLog) : execLog[j].key = execLog[i].key => j = i
            /\ \A p \in Threads :
                  (r[p].pc = "done" /\ KeyOf(p) = execLog[i].key
                   /\ r[p].outcome = "executed") => r[p].seen = "live"

\* the owner's second white_check_mark after a failed execution found
\* nothing
C37_Witness ==
    \E i \in 1..Len(execLog), p \in Threads :
        /\ FailedExec(i)
        /\ execLog[i].response # "ok"
        /\ r[p].pc = "done"
        /\ KeyOf(p) = execLog[i].key
        /\ r[p].reaction = "white_check_mark"
        /\ r[p].user = execLog[i].owner
        /\ r[p].outcome = "no_pending"
        /\ r[p].seen = "removed"

----------------------------------------------------------------------------
(* Claims about the strings of a redacted value, checked under SpecRedact *)

\* no string of v, at any depth, holds a match of the currency pattern
RECURSIVE CurrencyFree(_)
CurrencyFree(v) ==
    IF v.t = "str" THEN \A i \in 1..Len(v.s) : MatchEnd(v.s, i) = 0
    ELSE IF v.t = "list" THEN \A i \in 1..Len(v.items) : CurrencyFree(v.items[i])
    ELSE IF v.t = "dict" THEN \A k \in DOMAIN v.d : CurrencyFree(v.d[k])
    ELSE TRUE

\* C39: for a role below ADMIN no string of the result of redact_data holds
\* a currency-like substring, be the string the value of a mapping, the
\* element of a sequence or the value passed itself.
C39_EveryStringScrubbed ==
    (rd # None /\ ~is_admin(rd.role)) => CurrencyFree(rd.out)

----------------------------------------------------------------------------
(* Claims about get_by_thread, checked under SpecThread *)

\* the entries stored for a reply in thread thread_ts of channel channel_id
\* that are not older than the TTL at time t
StoredForThread(channel_id, thread_ts, t) ==
    {[action |-> ref[c].action, user_id |-> ref[c].user_id, channel_id |-> c[1],
      message_ts |-> c[2], created_at |-> ref[c].created_at] :
        c \in {x \in StCoords : /\ ref[x] # None
                                /\ x[1] = channel_id
                                /\ ref[x].thread_ts = thread_ts
                                /\ ~(t - ref[x].created_at > TTL)}}

\* C40: get_by_thread(channel, thread) returns every unexpired PendingAction
\* that was stored for a reply in that thread of that channel.
C40_ThreadActionsReturned ==
    ret.op = "get_by_thread" =>
        StoredForThread(ret.channel_id, ret.thread_ts, ret.at) \subseteq ret.result

====
